---- MODULE Spec2Model ----
(***************************************************************************)
(* ModelManager of fastapi_sqlalchemy_toolkit over an SQLAlchemy           *)
(* AsyncSession.                                                           *)
(*                                                                         *)
(* The managed entities are Parent and Child of tests/models.py:           *)
(*   Parent(id, title, slug unique, description nullable),                 *)
(*          UniqueConstraint("title", "description")                       *)
(*   Child(id, title, slug unique, parent_id -> parent.id)                 *)
(* One manager is modelled at a time; `model` says which.  Child carries   *)
(* the foreign key, Parent the UniqueConstraint and the nullable column;    *)
(* both have the unique column slug.  created_at (server default now())    *)
(* is left out: it takes no part in any operation of the manager.          *)
(*                                                                         *)
(* The session is the ORM's: `sess` is the table as the session's open     *)
(* transaction sees it (flushed changes included), `db` the committed      *)
(* table.  Objects handed to update/delete are persistent, loaded          *)
(* instances of the session (expire_on_commit=False, as in tests/db.py and *)
(* examples/app/db.py), so an object is identified with its row in `sess`. *)
(* A statement the database rejects aborts the transaction: its pending    *)
(* changes are lost (sess' = db).                                          *)
(***************************************************************************)
EXTENDS Integers, Sequences, FiniteSets, TLC

VARIABLES model, parents, db, sess, ctx, pc, last

vars == <<model, parents, db, sess, ctx, pc, last>>

-----------------------------------------------------------------------------
(* Bounds *)

\* rows of the managed table that can exist at once (in sess and db together)
MaxRows == 2

\* objects in one bulk_create call
MaxBatch == 2

IdNames == <<"i1", "i2", "i3", "i4">>

Ids == {IdNames[k] : k \in 1..MaxRows}

Titles == {"a", "b"}

Slugs == {"x", "y"}

Descriptions == {"d"}

\* ids a Child.parent_id may carry; `parents` holds the Parent rows that exist
\* when the Child manager is the one modelled
ParentIds == {"p1", "p2"}

\* the ids of the Parent rows stored while the Child manager writes
StoredParentIds == {"p1"}

\* Python None / SQL NULL
NULL == "NULL"

\* the Parent rows stored while the Child manager writes
StoredParents ==
    {[id |-> p, title |-> "a", slug |-> "x", description |-> NULL] :
        p \in StoredParentIds}

Models == {"parent", "child"}

\* Parent with its UniqueConstraint("title", "description") declared with
\* postgresql_nulls_not_distinct=True, the declaration __init__ files under
\* nullable_unique_constraints
NullsNotDistinctParent == "parent_nulls_not_distinct"

ParentModels == {"parent", NullsNotDistinctParent}

MappedClasses == Models \cup {NullsNotDistinctParent}

-----------------------------------------------------------------------------
(* Dictionaries: functions from column names to values *)

EmptyDict == [k \in {} |-> NULL]

\* dict.update the wrong way round: the values already there win
Merge_keeping_base(base, over) ==
    [k \in (DOMAIN base) \cup (DOMAIN over) |->
        IF k \in DOMAIN base THEN base[k] ELSE over[k]]

\* base.update(over): the values of `over` win
Merge(base, over) ==
    [k \in (DOMAIN base) \cup (DOMAIN over) |->
        IF k \in DOMAIN over THEN over[k] ELSE base[k]]

Restrict(d, keys) == [k \in (DOMAIN d) \cap keys |-> d[k]]

\* the elements of a sequence
Range(s) == {s[i] : i \in 1..Len(s)}

-----------------------------------------------------------------------------
(* The mapped classes and what ModelManager.__init__ derives from them *)

tablename(m) == m

Columns(m) ==
    IF m \in ParentModels THEN {"id", "title", "slug", "description"}
    ELSE {"id", "title", "slug", "parent_id"}

DataColumns(m) == Columns(m) \ {"id"}

\* mapped_column(unique=True)
UniqueColumns(m) == {"slug"}

\* Mapped[str | None]
NullableColumns(m) == IF m \in ParentModels THEN {"description"} ELSE {}

\* the values a column can hold (NULL apart)
ColumnValues(m, c) ==
    CASE c = "id" -> Ids
      [] c = "title" -> Titles
      [] c = "slug" -> Slugs
      [] c = "description" -> Descriptions
      [] c = "parent_id" -> ParentIds

\* self.unique_constraints: UniqueConstraint without postgresql_nulls_not_distinct
unique_constraints(m) ==
    IF m = "parent" THEN << <<"title", "description">> >> ELSE << >>

\* self.nullable_unique_constraints: postgresql_nulls_not_distinct=True
nullable_unique_constraints(m) ==
    IF m = NullsNotDistinctParent THEN << <<"title", "description">> >> ELSE << >>

\* self.fk_name_to_model: FK column -> referenced model
fk_name_to_model(m) ==
    IF m = "child" THEN [k \in {"parent_id"} |-> "parent"] ELSE EmptyDict

\* self.m2m_relationships: relationship(secondary=...) attribute -> model
m2m_relationships(m) ==
    IF m \in ParentModels THEN [k \in {"categories"} |-> "category"]
    ELSE EmptyDict

\* self.defaults: nullable attributes default to None
defaults(m) == [k \in NullableColumns(m) |-> NULL]

-----------------------------------------------------------------------------
(* The database's own rules, enforced when a statement is executed *)

Rows(m) == [Columns(m) -> Ids \cup Titles \cup Slugs \cup Descriptions
                              \cup ParentIds \cup {NULL}]

WellTyped(m, r) ==
    \A c \in Columns(m) :
        r[c] \in ColumnValues(m, c) \cup {NULL}

\* NOT NULL columns and the primary key
NotNullOk(m, r) ==
    \A c \in Columns(m) \ NullableColumns(m) : r[c] # NULL

\* a unique index: two rows conflict when they agree on every column and none
\* of the values is NULL (NULLS DISTINCT, the default)
UniqueIndexOk(t, cols) ==
    ~ \E r \in t : \E q \in t :
        /\ r # q
        /\ \A c \in cols : r[c] # NULL /\ r[c] = q[c]

\* NULLS NOT DISTINCT: NULL equals NULL
UniqueIndexNullsNotDistinctOk(t, cols) ==
    ~ \E r \in t : \E q \in t :
        /\ r # q
        /\ \A c \in cols : r[c] = q[c]

ForeignKeysOk(m, t, ps) ==
    \A r \in t : \A c \in DOMAIN fk_name_to_model(m) :
        r[c] # NULL => r[c] \in ps

DBConstraintsOk(m, t, ps) ==
    /\ \A r \in t : NotNullOk(m, r)
    /\ UniqueIndexOk(t, {"id"})
    /\ \A c \in UniqueColumns(m) : UniqueIndexOk(t, {c})
    /\ \A i \in 1..Len(unique_constraints(m)) :
           UniqueIndexOk(t, Range(unique_constraints(m)[i]))
    /\ \A i \in 1..Len(nullable_unique_constraints(m)) :
           UniqueIndexNullsNotDistinctOk(t, Range(nullable_unique_constraints(m)[i]))
    /\ ForeignKeysOk(m, t, ps)

-----------------------------------------------------------------------------
(* Statements and their execution *)

\* limit=None and offset=None, the defaults: a number no caller passes
NoLimit == -1

\* a where expression: column, comparison, value
NoWhere == [col |-> "none", op |-> "none", val |-> NULL]

\* an order_by expression: column, descending or not
NoOrder == [col |-> "none", desc |-> FALSE]

\* default_ordering of the managers of tests/models.py
default_ordering(m) ==
    IF m = "child" THEN [col |-> "title", desc |-> FALSE] ELSE NoOrder

\* get_order_by_expression that forgets default_ordering once order_by is given
get_order_by_expression_alone(m, order_by) ==
    IF order_by # NoOrder THEN <<order_by>>
    ELSE IF default_ordering(m) # NoOrder THEN <<default_ordering(m)>> ELSE << >>

\* the tuple handed to stmt.order_by(), as a sequence
get_order_by_expression(m, order_by) ==
    IF order_by # NoOrder
    THEN IF default_ordering(m) # NoOrder
         THEN <<order_by, default_ordering(m)>>
         ELSE <<order_by>>
    ELSE IF default_ordering(m) # NoOrder THEN <<default_ordering(m)>> ELSE << >>

\* select: "model" for select(self.model), "id" for select(self.model.id);
\* joins and filter are what list and paginated_list add to the statement
assemble_stmt(m, base_stmt, order_by, where, limit, offset, simple_filters) ==
    [select |-> base_stmt,
     filter_by |-> simple_filters,
     order_by |-> get_order_by_expression(m, order_by),
     where |-> where,
     limit |-> limit,
     offset |-> offset,
     joins |-> {},
     filter |-> EmptyDict]

\* col == val and col != val as SQLAlchemy renders them: a comparison with
\* None is IS NULL / IS NOT NULL, and a comparison of NULL is never true
WhereHolds(r, w) ==
    CASE w.op = "none" -> TRUE
      [] w.op = "==" ->
            IF w.val = NULL THEN r[w.col] = NULL ELSE r[w.col] = w.val
      [] w.op = "!=" ->
            IF w.val = NULL THEN r[w.col] # NULL
            ELSE r[w.col] # NULL /\ r[w.col] # w.val

\* filter_by that leaves out the keyword arguments whose value is None
FilterByHolds_skipping_none(r, simple_filters) ==
    \A k \in DOMAIN simple_filters :
        simple_filters[k] # NULL => r[k] = simple_filters[k]

\* filter_by(**simple_filters)
FilterByHolds(r, simple_filters) ==
    \A k \in DOMAIN simple_filters :
        WhereHolds(r, [col |-> k, op |-> "==", val |-> simple_filters[k]])

\* the rows a SELECT statement yields, before ordering, limit and offset
Selected(t, stmt) ==
    {r \in t : FilterByHolds(r, stmt.filter_by) /\ WhereHolds(r, stmt.where)}

\* ModelManager.exists that builds its statement without the where expression
exists_without_where(m, t, where, simple_filters) ==
    Selected(t, assemble_stmt(m, "id", NoOrder, NoWhere, NoLimit, NoLimit,
                              simple_filters)) # {}

\* ModelManager.exists: result.first() is not None
exists(m, t, where, simple_filters) ==
    Selected(t, assemble_stmt(m, "id", NoOrder, where, NoLimit, NoLimit, simple_filters)) # {}

\* count that leaves the where expression out of its statement
count_without_where(m, t, where, simple_filters) ==
    Cardinality({r \in t : FilterByHolds(r, simple_filters)})

\* ModelManager.count: SELECT count(id), with where and filter_by added only
\* when they are given; `result.scalar_one_or_none() or 0`
count(m, t, where, simple_filters) ==
    LET n == Cardinality({r \in t :
                /\ where # NoWhere => WhereHolds(r, where)
                /\ simple_filters # EmptyDict => FilterByHolds(r, simple_filters)})
    IN  IF n # 0 THEN n ELSE 0

-----------------------------------------------------------------------------
(* Outcomes of a call *)

HTTP_404_NOT_FOUND == 404

HTTP_422_UNPROCESSABLE_ENTITY == 422

NoErr == [exc |-> "none", status |-> 0, detail |-> << >>]

HTTPException(status_code, detail) ==
    [exc |-> "HTTPException", status |-> status_code, detail |-> detail]

\* exceptions that are not the web framework's
OtherError(name, what) == [exc |-> name, status |-> 0, detail |-> <<what>>]

\* what a validation step hands on: the error raised (if any) and the session
\* calls it made, in order
Pass(calls) == [err |-> NoErr, calls |-> calls]

Raise(err, calls) == [err |-> err, calls |-> calls]

\* run `next` after `first` unless `first` raised
Then(first, next) ==
    IF first.err # NoErr THEN first
    ELSE [err |-> next.err, calls |-> first.calls \o next.calls]

-----------------------------------------------------------------------------
(* Validation *)

\* db_obj is None
NoObj == EmptyDict

sqlalchemy_model_to_dict(db_obj) == db_obj

\* the exclusion of the object's own row written with == for !=
IdEquals(in_obj) ==
    [col |-> "id", op |-> "==",
     val |-> IF "id" \in DOMAIN in_obj THEN in_obj["id"] ELSE NULL]

\* the uniqueness queries without their condition on the id
IdUnrestricted(in_obj) ==
    [col |-> "none", op |-> "none", val |-> NULL]

\* where=(self.model.id != in_obj.get("id"))
IdDiffers(in_obj) ==
    [col |-> "id", op |-> "!=",
     val |-> IF "id" \in DOMAIN in_obj THEN in_obj["id"] ELSE NULL]

\* validate_fk_exists without its `in_obj[key] is not None` guard: a None key
\* is looked up like any other and names no row
validate_fk_exists_of_none_too(m, ps, in_obj) ==
    LET checked == {k \in DOMAIN in_obj : k \in DOMAIN fk_name_to_model(m)}
        missing == {k \in checked : in_obj[k] \notin ps}
    IN  IF checked = {} THEN Pass(<< >>)
        ELSE IF missing # {}
        THEN LET k == CHOOSE k \in missing : TRUE
             IN  Raise(HTTPException(HTTP_422_UNPROCESSABLE_ENTITY,
                         <<tablename(fk_name_to_model(m)[k]), "fk", in_obj[k]>>),
                       <<"get">>)
        ELSE Pass(<<"get">>)

\* The entities have at most one foreign key, so the order in which the loop
\* visits the keys of in_obj does not matter.
validate_fk_exists(m, ps, in_obj) ==
    LET checked == {k \in DOMAIN in_obj :
                        k \in DOMAIN fk_name_to_model(m) /\ in_obj[k] # NULL}
        missing == {k \in checked : in_obj[k] \notin ps}
    IN  IF checked = {} THEN Pass(<< >>)
        ELSE IF missing # {}
        THEN LET k == CHOOSE k \in missing : TRUE
             IN  Raise(HTTPException(HTTP_422_UNPROCESSABLE_ENTITY,
                         <<tablename(fk_name_to_model(m)[k]), "fk", in_obj[k]>>),
                       <<"get">>)
        ELSE Pass(<<"get">>)

\* in_obj carries column values only, never a many-to-many attribute, so the
\* loop finds no field to handle
handle_m2m_fields(m, in_obj) ==
    IF (DOMAIN in_obj) \cap (DOMAIN m2m_relationships(m)) = {}
    THEN Pass(<< >>)
    ELSE Pass(<<"get">>)

\* validate_unique_fields that skips every column once db_obj is given
validate_unique_fields_on_create_only(m, t, in_obj, db_obj) ==
    LET checked == {c \in UniqueColumns(m) :
                        /\ c \in DOMAIN in_obj
                        /\ in_obj[c] # NULL
                        /\ db_obj = NoObj}
        taken == {c \in checked :
                        exists(m, t, IdDiffers(in_obj), [k \in {c} |-> in_obj[c]])}
    IN  IF checked = {} THEN Pass(<< >>)
        ELSE IF taken # {}
        THEN LET c == CHOOSE c \in taken : TRUE
             IN  Raise(HTTPException(HTTP_422_UNPROCESSABLE_ENTITY,
                         <<tablename(m), "unique_field", c, in_obj[c]>>),
                       <<"execute(select)">>)
        ELSE Pass(<<"execute(select)">>)

\* The entities have one unique column, so the order of the columns does not
\* matter.
validate_unique_fields(m, t, in_obj, db_obj) ==
    LET checked == {c \in UniqueColumns(m) :
                        /\ c \in DOMAIN in_obj
                        /\ in_obj[c] # NULL
                        /\ ~ (db_obj # NoObj /\ db_obj[c] = in_obj[c])}
        taken == {c \in checked :
                        exists(m, t, IdDiffers(in_obj), [k \in {c} |-> in_obj[c]])}
    IN  IF checked = {} THEN Pass(<< >>)
        ELSE IF taken # {}
        THEN LET c == CHOOSE c \in taken : TRUE
             IN  Raise(HTTPException(HTTP_422_UNPROCESSABLE_ENTITY,
                         <<tablename(m), "unique_field", c, in_obj[c]>>),
                       <<"execute(select)">>)
        ELSE Pass(<<"execute(select)">>)

Min(S) == CHOOSE x \in S : \A y \in S : x <= y

RECURSIVE validate_unique_constraints_from(_, _, _, _)
validate_unique_constraints_from(m, t, in_obj, i) ==
    IF i > Len(unique_constraints(m)) THEN Pass(<< >>)
    ELSE
      LET unique_constraint == unique_constraints(m)[i]
          absent == {j \in 1..Len(unique_constraint) :
                        unique_constraint[j] \notin DOMAIN in_obj}
      IN  IF absent # {}
          THEN Raise(OtherError("KeyError", unique_constraint[Min(absent)]), << >>)
          ELSE
            LET query == [k \in {c \in Range(unique_constraint) : in_obj[c] # NULL}
                            |-> in_obj[k]]
            IN  IF exists(m, t, IdDiffers(in_obj), query)
                THEN Raise(HTTPException(HTTP_422_UNPROCESSABLE_ENTITY,
                             <<tablename(m), "unique_constraint", unique_constraint>>),
                           <<"execute(select)">>)
                ELSE Then(Pass(<<"execute(select)">>),
                          validate_unique_constraints_from(m, t, in_obj, i + 1))

\* validate_unique_constraints that queries nothing
validate_unique_constraints_skipped(m, t, in_obj) ==
    Pass(<< >>)

validate_unique_constraints(m, t, in_obj) ==
    validate_unique_constraints_from(m, t, in_obj, 1)

\* validate_nullable_unique_constraints without its `continue`: the columns
\* holding None are left out of the query, as validate_unique_constraints does
RECURSIVE validate_nullable_unique_constraints_querying_nulls(_, _, _, _)
validate_nullable_unique_constraints_querying_nulls(m, t, in_obj, i) ==
    IF i > Len(nullable_unique_constraints(m)) THEN Pass(<< >>)
    ELSE
      LET unique_constraint == nullable_unique_constraints(m)[i]
          absent == {j \in 1..Len(unique_constraint) :
                        unique_constraint[j] \notin DOMAIN in_obj}
      IN  IF absent # {}
          THEN Raise(OtherError("KeyError", unique_constraint[Min(absent)]), << >>)
          ELSE
            LET query == [k \in {c \in Range(unique_constraint) : in_obj[c] # NULL}
                            |-> in_obj[k]]
            IN  IF exists(m, t, IdDiffers(in_obj), query)
                THEN Raise(HTTPException(HTTP_422_UNPROCESSABLE_ENTITY,
                             <<tablename(m), "unique_constraint", unique_constraint>>),
                           <<"execute(select)">>)
                ELSE Then(Pass(<<"execute(select)">>),
                          validate_nullable_unique_constraints_querying_nulls(
                              m, t, in_obj, i + 1))

RECURSIVE validate_nullable_unique_constraints_from(_, _, _, _)
validate_nullable_unique_constraints_from(m, t, in_obj, i) ==
    IF i > Len(nullable_unique_constraints(m)) THEN Pass(<< >>)
    ELSE
      LET unique_constraint == nullable_unique_constraints(m)[i]
          \* any(in_obj[field] is None ...) stops at the first None
          nulls == {j \in 1..Len(unique_constraint) :
                        /\ unique_constraint[j] \in DOMAIN in_obj
                        /\ in_obj[unique_constraint[j]] = NULL}
          absent == {j \in 1..Len(unique_constraint) :
                        unique_constraint[j] \notin DOMAIN in_obj}
          rest == validate_nullable_unique_constraints_from(m, t, in_obj, i + 1)
      IN  IF absent # {} /\ (nulls = {} \/ Min(absent) < Min(nulls))
          THEN Raise(OtherError("KeyError", unique_constraint[Min(absent)]), << >>)
          ELSE IF nulls # {} THEN rest
          ELSE
            LET query == [k \in Range(unique_constraint) |-> in_obj[k]]
            IN  IF exists(m, t, IdDiffers(in_obj), query)
                THEN Raise(HTTPException(HTTP_422_UNPROCESSABLE_ENTITY,
                             <<tablename(m), "unique_constraint", unique_constraint>>),
                           <<"execute(select)">>)
                ELSE Then(Pass(<<"execute(select)">>), rest)

validate_nullable_unique_constraints(m, t, in_obj) ==
    validate_nullable_unique_constraints_from(m, t, in_obj, 1)

\* the dictionary the validators see and run_db_validation returns
ValidatedData(in_obj, db_obj) ==
    IF db_obj # NoObj THEN Merge(sqlalchemy_model_to_dict(db_obj), in_obj)
    ELSE in_obj

run_db_validation(m, t, ps, in_obj, db_obj) ==
    LET data == ValidatedData(in_obj, db_obj)
    IN  Then(IF DOMAIN fk_name_to_model(m) # {}
             THEN validate_fk_exists(m, ps, data) ELSE Pass(<< >>),
        Then(IF DOMAIN m2m_relationships(m) # {}
             THEN handle_m2m_fields(m, data) ELSE Pass(<< >>),
        Then(validate_unique_fields(m, t, data, db_obj),
        Then(validate_unique_constraints(m, t, data),
             validate_nullable_unique_constraints(m, t, data)))))

-----------------------------------------------------------------------------
(* Inputs *)

\* the values a caller passes for a column (in_obj fields and **attrs): None
\* for the nullable column and for the foreign key
InputValues(m, c) ==
    IF c \in {"title", "slug"} THEN ColumnValues(m, c)
    ELSE ColumnValues(m, c) \cup {NULL}

AllValues == Titles \cup Slugs \cup Descriptions \cup ParentIds \cup {NULL}

\* in_obj.model_dump(...) updated with attrs: any set of columns, any values
DictsOf ==
    [m \in MappedClasses |->
        UNION {{d \in [D -> AllValues] : \A c \in D : d[c] \in InputValues(m, c)} :
                    D \in SUBSET DataColumns(m)}]

\* the fields a schema declares with a default, and the default
SchemaDefaults(m) ==
    IF m \in ParentModels THEN [k \in {"description"} |-> NULL] ELSE EmptyDict

\* in_obj: None, or a schema object, known by the fields that were set
NoSchemaObj == [given |-> FALSE, fields_set |-> EmptyDict]

SchemaObj(d) == [given |-> TRUE, fields_set |-> d]

\* the schema objects: the fields without a default are set, and None is the
\* value of optional fields only
SchemaObjectsOf ==
    [m \in MappedClasses |->
        {SchemaObj(d) : d \in
            {d \in DictsOf[m] :
                /\ DataColumns(m) \ DOMAIN SchemaDefaults(m) \subseteq DOMAIN d
                /\ \A c \in DOMAIN d : d[c] = NULL => c \in NullableColumns(m)}}]

\* model_dump that leaves the unset fields out whatever exclude_unset says
model_dump_set_fields(m, in_obj, exclude_unset) ==
    in_obj.fields_set

\* in_obj.model_dump(exclude_unset=...)
model_dump(m, in_obj, exclude_unset) ==
    IF exclude_unset THEN in_obj.fields_set
    ELSE Merge(SchemaDefaults(m), in_obj.fields_set)

\* the **attrs passed along with a schema object
OverridesOf ==
    [m \in MappedClasses |-> {EmptyDict, [k \in {"title"} |-> "b"]}]

\* model_dump() of a schema object: every field of the schema is present
SchemaDumpsOf ==
    [m \in MappedClasses |-> {d \in DictsOf[m] : DOMAIN d = DataColumns(m)}]

\* the objects of a bulk_create batch: schema objects with the title "a",
\* None only in the fields the schema types as optional
BatchDumpsOf ==
    [m \in MappedClasses |->
        {d \in SchemaDumpsOf[m] :
            /\ d["title"] = "a"
            /\ \A c \in DOMAIN d : d[c] = NULL => c \in NullableColumns(m)}]

\* the values of a bulk_update: one field, None only where the schema types
\* the field as optional
BulkUpdateDataOf ==
    [m \in MappedClasses |->
        {d \in DictsOf[m] :
            /\ Cardinality(DOMAIN d) = 1
            /\ \A c \in DOMAIN d : d[c] = NULL => c \in NullableColumns(m)}]

\* the where expressions callers pass
WheresOf ==
    [m \in Models |->
        {NoWhere, [col |-> "title", op |-> "==", val |-> "a"]}]

\* ids: None, or a collection of ids
NoIds == [given |-> FALSE, ids |-> {}]

IdCollections == {NoIds} \cup {[given |-> TRUE, ids |-> S] : S \in SUBSET Ids}

-----------------------------------------------------------------------------
(* The session *)

\* save without the commit flag: commits whenever no context manager is open
save_without_flag(in_trans_context_manager, commit) ==
    IF in_trans_context_manager THEN "flush" ELSE "commit"

\* save without the look at the session's context manager
save_without_context_manager(in_trans_context_manager, commit) ==
    IF commit THEN "commit" ELSE "flush"

\* ModelManager.save: the session call it makes
save(in_trans_context_manager, commit) ==
    IF in_trans_context_manager THEN "flush"
    ELSE IF commit THEN "commit"
    ELSE "flush"

IdsOf(t) == {r["id"] : r \in t}

\* ids no row has, in the order of IdNames
UnusedIds ==
    LET unused == {k \in 1..MaxRows : IdNames[k] \notin IdsOf(sess) \cup IdsOf(db)}
        Nth[n \in 0..MaxRows] ==
            IF n = 0 THEN 0
            ELSE IF \E k \in unused : k > Nth[n - 1]
                 THEN CHOOSE k \in unused :
                        k > Nth[n - 1] /\ \A j \in unused : j > Nth[n - 1] => k <= j
                 ELSE MaxRows + 1
    IN  [n \in 1..Cardinality(unused) |-> IdNames[Nth[n]]]

\* default=uuid4 gives each new object an id no row has; ids are only ever
\* compared for equality, so the n new objects take the first n unused ids
FreshIds(n) ==
    IF n <= Len(UnusedIds) THEN {[i \in 1..n |-> UnusedIds[i]]} ELSE {}

\* self.model(**data): columns not given are NULL until the INSERT
NewObject(m, id, data) ==
    [c \in Columns(m) |->
        IF c = "id" THEN id
        ELSE IF c \in DOMAIN data THEN data[c] ELSE NULL]

\* `last` is the manager call that has just returned: its arguments, the
\* exception it raised (if any), the session calls it made in order, what it
\* returned, and the tables and session mode it was called with
NoCall ==
    [op |-> "none", args |-> EmptyDict, err |-> NoErr, calls |-> << >>,
     ret |-> [kind |-> "none"],
     pre |-> [db |-> {}, sess |-> {}, ctx |-> FALSE]]

Call(op, args, err, calls, ret) ==
    [op |-> op, args |-> args, err |-> err, calls |-> calls, ret |-> ret,
     pre |-> [db |-> db, sess |-> sess, ctx |-> ctx]]

None == [kind |-> "None"]

Obj(r) == [kind |-> "object", val |-> r]

Objs(rs) == [kind |-> "objects", val |-> rs]

Bool(b) == [kind |-> "bool", val |-> b]

\* the call raised before it wrote anything
Raises(op, args, err, calls) ==
    /\ last' = Call(op, args, err, calls, [kind |-> "none"])
    /\ pc' = "returned"
    /\ UNCHANGED <<model, parents, db, sess, ctx>>

\* session.execute() of an INSERT, UPDATE or DELETE statement
StatementCalls == {"execute(insert)", "execute(update)", "execute(delete)"}

\* Writes whose commit makes durable only the rows the call itself added
Writes_committing_own_rows(op, args, commit, t_new, before, written, after, ret) ==
    LET how == save(ctx, commit)
    IN  /\ pc' = "returned"
        /\ UNCHANGED <<model, parents, ctx>>
        /\ IF DBConstraintsOk(model, t_new, IdsOf(parents))
           THEN /\ sess' = t_new
                /\ db' = IF how = "commit" THEN db \cup (t_new \ sess) ELSE db
                /\ last' = Call(op, args, NoErr,
                                before \o written \o <<how>> \o after, ret)
           ELSE /\ sess' = db
                /\ db' = db
                /\ last' = Call(op, args, OtherError("IntegrityError", op),
                                before \o written \o
                                    (IF Range(written) \subseteq StatementCalls
                                     THEN << >> ELSE <<how>>),
                                [kind |-> "none"])

\* The statements of the call turn the table into t_new; `written` are the
\* session calls that do it, followed by save() and `after`.  The database
\* rejects a statement that breaks one of its constraints: an executed
\* statement at once, a pending object when save() flushes it.
Writes(op, args, commit, t_new, before, written, after, ret) ==
    LET how == save(ctx, commit)
    IN  /\ pc' = "returned"
        /\ UNCHANGED <<model, parents, ctx>>
        /\ IF DBConstraintsOk(model, t_new, IdsOf(parents))
           THEN /\ sess' = t_new
                /\ db' = IF how = "commit" THEN t_new ELSE db
                /\ last' = Call(op, args, NoErr,
                                before \o written \o <<how>> \o after, ret)
           ELSE /\ sess' = db
                /\ db' = db
                /\ last' = Call(op, args, OtherError("IntegrityError", op),
                                before \o written \o
                                    (IF Range(written) \subseteq StatementCalls
                                     THEN << >> ELSE <<how>>),
                                [kind |-> "none"])

-----------------------------------------------------------------------------
(* Write operations of the manager *)

\* create with session.add(db_obj) moved ahead of run_db_validation
create_add_first(in_obj, attrs, commit) ==
    LET given == Merge(IF in_obj.given THEN model_dump(model, in_obj, FALSE)
                       ELSE EmptyDict, attrs)
        args == [in_obj |-> given, schema |-> in_obj, attrs |-> attrs,
                 commit |-> commit]
        create_data == Merge(defaults(model), given)
        v == run_db_validation(model, sess, IdsOf(parents), create_data, NoObj)
    IN  \E ids \in FreshIds(1) :
            LET db_obj == NewObject(model, ids[1], create_data)
            IN  IF v.err # NoErr
                THEN Raises("create", args, v.err, <<"add">> \o v.calls)
                ELSE Writes("create", args, commit, sess \cup {db_obj},
                            <<"add">> \o v.calls, << >>, <<"refresh">>, Obj(db_obj))

\* args.in_obj is in_obj.model_dump() updated with attrs
create(in_obj, attrs, commit) ==
    LET given == Merge(IF in_obj.given THEN model_dump(model, in_obj, FALSE)
                       ELSE EmptyDict, attrs)
        args == [in_obj |-> given, schema |-> in_obj, attrs |-> attrs,
                 commit |-> commit]
        create_data == Merge(defaults(model), given)
        v == run_db_validation(model, sess, IdsOf(parents), create_data, NoObj)
    IN  IF v.err # NoErr
        THEN Raises("create", args, v.err, v.calls)
        ELSE \E ids \in FreshIds(1) :
                LET db_obj == NewObject(model, ids[1], create_data)
                IN  Writes("create", args, commit, sess \cup {db_obj},
                           v.calls, <<"add">>, <<"refresh">>, Obj(db_obj))

Create ==
    /\ pc = "idle"
    /\ \E commit \in BOOLEAN :
        \/ \E attrs \in DictsOf[model] : create(NoSchemaObj, attrs, commit)
        \/ \E in_obj \in SchemaObjectsOf[model], attrs \in OverridesOf[model] :
                create(in_obj, attrs, commit)

\* args.in_obj is in_obj.model_dump(exclude_unset=...) updated with attrs
update(db_obj, in_obj, exclude_unset, attrs, commit) ==
    LET update_data == Merge(IF in_obj.given
                             THEN model_dump(model, in_obj, exclude_unset)
                             ELSE EmptyDict, attrs)
        args == [db_obj |-> db_obj, in_obj |-> update_data, schema |-> in_obj,
                 exclude_unset |-> exclude_unset, attrs |-> attrs,
                 commit |-> commit]
        v == run_db_validation(model, sess, IdsOf(parents), update_data, db_obj)
        validated == ValidatedData(update_data, db_obj)
    IN  IF v.err # NoErr
        THEN Raises("update", args, v.err, v.calls)
        ELSE LET updated == Merge(db_obj, validated)
             IN  Writes("update", args, commit, (sess \ {db_obj}) \cup {updated},
                        v.calls, <<"setattr">>, <<"refresh">>, Obj(updated))

Update ==
    /\ pc = "idle"
    /\ \E db_obj \in sess, commit \in BOOLEAN :
        \/ \E attrs \in DictsOf[model] :
                update(db_obj, NoSchemaObj, TRUE, attrs, commit)
        \/ \E in_obj \in SchemaObjectsOf[model], exclude_unset \in BOOLEAN :
                update(db_obj, in_obj, exclude_unset, EmptyDict, commit)

\* delete that saves without having called session.delete(db_obj)
delete_without_session_delete(db_obj, commit) ==
    Writes("delete", [db_obj |-> db_obj, commit |-> commit], commit,
           sess, << >>, << >>, << >>, Obj(db_obj))

delete(db_obj, commit) ==
    Writes("delete", [db_obj |-> db_obj, commit |-> commit], commit,
           sess \ {db_obj}, << >>, <<"delete">>, << >>, Obj(db_obj))

Delete ==
    /\ pc = "idle"
    /\ \E db_obj \in sess, commit \in BOOLEAN : delete(db_obj, commit)

\* a loop that validates the first object of the batch only
validate_first(create_data, i) ==
    IF Len(create_data) = 0 THEN Pass(<< >>)
    ELSE run_db_validation(model, sess, IdsOf(parents), create_data[1], NoObj)

\* run_db_validation for in_objs[i], in_objs[i+1], ...: the first error ends it
RECURSIVE validate_each(_, _)
validate_each(create_data, i) ==
    IF i > Len(create_data) THEN Pass(<< >>)
    ELSE Then(run_db_validation(model, sess, IdsOf(parents), create_data[i], NoObj),
              validate_each(create_data, i + 1))

bulk_create(in_objs, commit) ==
    LET args == [in_objs |-> in_objs, commit |-> commit]
        create_data == in_objs
        v == validate_each(create_data, 1)
    IN  IF v.err # NoErr
        THEN Raises("bulk_create", args, v.err, v.calls)
        ELSE \E ids \in FreshIds(Len(create_data)) :
                LET created == [i \in 1..Len(create_data) |->
                                    NewObject(model, ids[i], create_data[i])]
                IN  Writes("bulk_create", args, commit, sess \cup Range(created),
                           v.calls, <<"execute(insert)">>, << >>, Objs(created))

BulkCreate ==
    /\ pc = "idle"
    /\ \E n \in 1..MaxBatch :
       \E in_objs \in [1..n -> BatchDumpsOf[model]], commit \in BOOLEAN :
            bulk_create(in_objs, commit)

\* the rows an UPDATE or DELETE statement of the bulk operations touches
BulkTarget(t, ids, where) ==
    IF ids.given /\ ids.ids # {}
    THEN {r \in t : r["id"] \in ids.ids}
    ELSE IF where # NoWhere
    THEN {r \in t : WhereHolds(r, where)}
    ELSE t

bulk_update(update_data, ids, where, commit) ==
    LET args == [in_obj |-> update_data, ids |-> ids, where |-> where,
                 commit |-> commit]
        target == BulkTarget(sess, ids, where)
        updated == {Merge(r, update_data) : r \in target}
    IN  Writes("bulk_update", args, commit, (sess \ target) \cup updated,
               << >>, <<"execute(update)">>, << >>, Objs(updated))

BulkUpdate ==
    /\ pc = "idle"
    /\ \E update_data \in BulkUpdateDataOf[model],
          ids \in IdCollections, where \in WheresOf[model], commit \in BOOLEAN :
            bulk_update(update_data, ids, where, commit)

bulk_delete(ids, where, commit) ==
    LET args == [ids |-> ids, where |-> where, commit |-> commit]
        target == BulkTarget(sess, ids, where)
    IN  Writes("bulk_delete", args, commit, sess \ target,
               << >>, <<"execute(delete)">>, << >>, None)

BulkDelete ==
    /\ pc = "idle"
    /\ \E ids \in IdCollections, where \in WheresOf[model], commit \in BOOLEAN :
            bulk_delete(ids, where, commit)

-----------------------------------------------------------------------------
(* Read operations of the manager *)

\* the most keyword filters a call passes
MaxFilters == 2

\* the values callers filter a column by
FilterValues(m, c) ==
    CASE c = "id" -> Ids
      [] c = "title" -> {"a"}
      [] c = "slug" -> {"x"}
      [] c = "description" -> {"d", NULL}
      [] c = "parent_id" -> {"p1"}

\* **simple_filters as the caller wrote them: pairs <<key, value>> in the order
\* of the keyword arguments, no key twice
KwargsOf ==
    [m \in Models |->
        UNION {{kw \in [1..n -> Columns(m) \X (AllValues \cup Ids)] :
                    /\ \A i \in 1..n : kw[i][2] \in FilterValues(m, kw[i][1])
                    /\ \A i \in 1..n : \A j \in 1..n :
                            kw[i][1] = kw[j][1] => i = j} :
               n \in 0..MaxFilters}]

\* the dict that **simple_filters is
Dict(kwargs) ==
    [k \in {kwargs[i][1] : i \in 1..Len(kwargs)} |->
        LET i == CHOOSE i \in 1..Len(kwargs) : kwargs[i][1] = k IN kwargs[i][2]]

\* the order_by expressions callers pass
OrdersOf ==
    [m \in Models |->
        {NoOrder, [col |-> "title", desc |-> FALSE], [col |-> "title", desc |-> TRUE]}
        \cup (IF m = "child" THEN {[col |-> "parent_id", desc |-> FALSE]} ELSE {})]

\* the database's ordering of the values; NULL sorts as larger than any value
Collation == <<"a", "b", "d", "i1", "i2", "i3", "i4", "p1", "p2", "x", "y">>

Rank(v) ==
    IF v = NULL THEN Len(Collation) + 1
    ELSE CHOOSE i \in 1..Len(Collation) : Collation[i] = v

\* ORDER BY puts r strictly before q
RECURSIVE Before(_, _, _, _)
Before(r, q, order_by, i) ==
    IF i > Len(order_by) THEN FALSE
    ELSE LET a == Rank(r[order_by[i].col])
             b == Rank(q[order_by[i].col])
         IN  IF a = b THEN Before(r, q, order_by, i + 1)
             ELSE IF order_by[i].desc THEN a > b ELSE a < b

\* a database that delivers the selected rows in no particular order
First_unordered(rows, order_by) ==
    rows

\* the rows the database may deliver first: rows the ORDER BY does not tell
\* apart come in any order
First(rows, order_by) ==
    {r \in rows : \A q \in rows : ~ Before(q, r, order_by, 1)}

Returns(ret) == [err |-> NoErr, ret |-> ret]

Throws(err) == [err |-> err, ret |-> [kind |-> "none"]]

\* ModelManager.get with base_stmt=None: the outcomes the call can have
get(m, t, order_by, where, simple_filters) ==
    LET stmt == assemble_stmt(m, "model", order_by, where, NoLimit, NoLimit,
                              simple_filters)
        rows == Selected(t, stmt)
    IN  IF order_by # NoOrder
        THEN \* result.scalars().first()
             IF rows = {} THEN {Returns(None)}
             ELSE {Returns(Obj(r)) : r \in First(rows, stmt.order_by)}
        ELSE \* result.scalar_one_or_none()
             IF rows = {} THEN {Returns(None)}
             ELSE IF Cardinality(rows) = 1 THEN {Returns(Obj(r)) : r \in rows}
             ELSE {Throws(OtherError("MultipleResultsFound", "scalar_one_or_none"))}

\* str(value) in an f-string
str(value) == IF value = NULL THEN "None" ELSE value

\* str(where): the SQL text of the expression, the value as a bind parameter
str_where(m, w) ==
    IF w.val = NULL
    THEN <<m, ".", w.col, IF w.op = "==" THEN " IS NULL" ELSE " IS NOT NULL">>
    ELSE <<m, ".", w.col, IF w.op = "==" THEN " = " ELSE " != ", ":", w.col, "_1">>

\* sep.join(parts), the strings as sequences of their pieces
RECURSIVE join(_, _, _)
join(sep, parts, i) ==
    IF i > Len(parts) THEN << >>
    ELSE IF i = Len(parts) THEN parts[i]
    ELSE parts[i] \o <<sep>> \o join(sep, parts, i + 1)

\* the 404 of get_or_404 and exists_or_404 with the where expression left out
\* of its detail
not_found_without_where(m, kwargs, where, what) ==
    LET attrs_str == join(", ", [i \in 1..Len(kwargs) |->
                            <<kwargs[i][1], "=", str(kwargs[i][2])>>], 1)
    IN  HTTPException(HTTP_404_NOT_FOUND,
                      <<tablename(m), " with ">> \o attrs_str \o <<what>>)

\* the 404 of get_or_404 and exists_or_404: the detail is the f-string
\* "{tablename} with {attrs_str}{what}", as the sequence of its pieces
not_found(m, kwargs, where, what) ==
    LET attrs_str == join(", ", [i \in 1..Len(kwargs) |->
                            <<kwargs[i][1], "=", str(kwargs[i][2])>>], 1)
        with_where == IF where # NoWhere
                      THEN attrs_str \o <<", ">> \o str_where(m, where)
                      ELSE attrs_str
    IN  HTTPException(HTTP_404_NOT_FOUND,
                      <<tablename(m), " with ">> \o with_where \o <<what>>)

\* ModelManager.get_or_404: the outcomes the call can have
get_or_404(m, t, order_by, where, kwargs) ==
    {IF o.err = NoErr /\ o.ret.kind = "None"
     THEN Throws(not_found(m, kwargs, where, " not found"))
     ELSE o : o \in get(m, t, order_by, where, Dict(kwargs))}

\* ModelManager.exists_or_404
exists_or_404(m, t, where, kwargs) ==
    IF exists(m, t, where, Dict(kwargs))
    THEN Returns(Bool(TRUE))
    ELSE Throws(not_found(m, kwargs, where, " does not exist"))

\* a read: one SELECT, the tables unchanged
Reads(op, args, outcome) ==
    /\ last' = Call(op, args, outcome.err, <<"execute(select)">>, outcome.ret)
    /\ pc' = "returned"
    /\ UNCHANGED <<model, parents, db, sess, ctx>>

Get ==
    /\ pc = "idle"
    /\ \E order_by \in OrdersOf[model], where \in WheresOf[model],
          kwargs \in KwargsOf[model] :
         \E outcome \in get(model, sess, order_by, where, Dict(kwargs)) :
            Reads("get", [order_by |-> order_by, where |-> where,
                          simple_filters |-> kwargs], outcome)

GetOr404 ==
    /\ pc = "idle"
    /\ \E order_by \in OrdersOf[model], where \in WheresOf[model],
          kwargs \in KwargsOf[model] :
         \E outcome \in get_or_404(model, sess, order_by, where, kwargs) :
            Reads("get_or_404", [order_by |-> order_by, where |-> where,
                                 simple_filters |-> kwargs], outcome)

Exists ==
    /\ pc = "idle"
    /\ \E where \in WheresOf[model], kwargs \in KwargsOf[model] :
            Reads("exists", [order_by |-> NoOrder, where |-> where,
                             simple_filters |-> kwargs],
                  Returns(Bool(exists(model, sess, where, Dict(kwargs)))))

ExistsOr404 ==
    /\ pc = "idle"
    /\ \E where \in WheresOf[model], kwargs \in KwargsOf[model] :
            Reads("exists_or_404", [order_by |-> NoOrder, where |-> where,
                                    simple_filters |-> kwargs],
                  exists_or_404(model, sess, where, kwargs))

-----------------------------------------------------------------------------
(* filter, list, paginated_list and count *)

\* the query values that stand for NULL
null_query_values == {"null"}

\* an InstrumentedAttribute, the key of a filter_expressions entry
Attr(m, c) == [model |-> m, col |-> c]

\* self.models_to_relationship_attrs: related model -> relationship attribute
models_to_relationship_attrs(m) ==
    IF m = "child" THEN [k \in {"parent"} |-> "parent"]
    ELSE [k \in {"child", "category"} |->
            IF k = "child" THEN "children" ELSE "categories"]

\* remove_optional_filter_bys: the entries whose value is None are deleted
remove_optional_filter_bys(filters) ==
    Restrict(filters, {k \in DOMAIN filters : filters[k] # NULL})

\* handle_filter_expressions: the entries whose value is None are deleted
\* (the keys are column attributes; no ilike expression is among them)
handle_filter_expressions(filter_expressions) ==
    Restrict(filter_expressions,
             {k \in DOMAIN filter_expressions : filter_expressions[k] # NULL})

\* handle_nullable_filter_expressions that takes no value for NULL
handle_nullable_filter_expressions_plain(nullable_filter_expressions) ==
    Restrict(nullable_filter_expressions,
             {k \in DOMAIN nullable_filter_expressions :
                    nullable_filter_expressions[k] # NULL})

\* handle_nullable_filter_expressions: a null query value becomes None, an
\* entry whose value is None is deleted
handle_nullable_filter_expressions(nullable_filter_expressions) ==
    [k \in {k \in DOMAIN nullable_filter_expressions :
                \/ nullable_filter_expressions[k] \in null_query_values
                \/ nullable_filter_expressions[k] # NULL} |->
        IF nullable_filter_expressions[k] \in null_query_values THEN NULL
        ELSE nullable_filter_expressions[k]]

\* get_joins that joins nothing
get_joins_none(m, base_query, filter_expressions, order_by) ==
    base_query

\* get_joins: an outer join over the relationship attribute for every other
\* model a filter expression refers to (order_by is a column of m here)
get_joins(m, base_query, filter_expressions, order_by) ==
    LET models_to_join == {k.model : k \in DOMAIN filter_expressions} \ {m}
    IN  [base_query EXCEPT !.joins =
            {x \in models_to_join : x \in DOMAIN models_to_relationship_attrs(m)}]

\* the row of all NULLs an outer join gives a row without a partner
NullRow(m) == [c \in Columns(m) |-> NULL]

\* FROM: the rows of the statement before any condition.  With the join, a
\* row of m comes once with every row of `related` its foreign key names, or
\* once with NULLs; without it, a condition on the other model's column
\* makes the database pair every row of m with every row of `related`
From(m, t, related, stmt) ==
    LET others == {k.model : k \in DOMAIN stmt.filter} \ {m}
    IN  IF "parent" \in stmt.joins
        THEN UNION {LET ps == {p \in related : p["id"] = r["parent_id"]}
                    IN  IF ps = {} THEN {[base |-> r, rel |-> NullRow("parent")]}
                        ELSE {[base |-> r, rel |-> p] : p \in ps} : r \in t}
        ELSE IF others # {}
        THEN {[base |-> r, rel |-> p] : r \in t, p \in related}
        ELSE {[base |-> r, rel |-> NullRow(m)] : r \in t}

\* stmt.filter(filter_expression == value) for every entry
FilterHolds(m, j, filter_expressions) ==
    \A k \in DOMAIN filter_expressions :
        WhereHolds(IF k.model = m THEN j.base ELSE j.rel,
                   [col |-> k.col, op |-> "==", val |-> filter_expressions[k]])

\* the arrangements of a finite set in a row
Arrangements(S) ==
    {s \in [1..Cardinality(S) -> S] :
        \A i \in 1..Cardinality(S) : \A j \in 1..Cardinality(S) :
            s[i] = s[j] => i = j}

\* stmt.offset(offset).limit(limit) of an ordered result
Slice(rows, offset, limit) ==
    LET from == IF offset = NoLimit THEN 0 ELSE offset
        upto == IF limit = NoLimit THEN Len(rows)
                ELSE IF from + limit < Len(rows) THEN from + limit ELSE Len(rows)
    IN  SubSeq(rows, from + 1, upto)

\* execute that cuts the ordered rows to limit and offset before it applies
\* the conditions added with stmt.filter()
Execute_slicing_first(m, t, related, stmt) ==
    LET rows == {j \in From(m, t, related, stmt) :
                    /\ FilterByHolds(j.base, stmt.filter_by)
                    /\ WhereHolds(j.base, stmt.where)}
        ordered == {s \in Arrangements(rows) :
                        \A i \in 1..Len(s) : \A j \in 1..Len(s) :
                            i < j => ~ Before(s[j].base, s[i].base, stmt.order_by, 1)}
        Kept(j) == FilterHolds(m, j, stmt.filter)
    IN  {LET cut == SelectSeq(Slice(s, stmt.offset, stmt.limit), Kept)
         IN  [i \in 1..Len(cut) |-> cut[i].base] : s \in ordered}

\* session.execute(stmt) followed by scalars().all(): the lists of instances
\* the database may deliver.  Rows the ORDER BY does not tell apart come in
\* any order; there is one instance per row of the statement
Execute(m, t, related, stmt) ==
    LET rows == {j \in From(m, t, related, stmt) :
                    /\ FilterByHolds(j.base, stmt.filter_by)
                    /\ WhereHolds(j.base, stmt.where)
                    /\ FilterHolds(m, j, stmt.filter)}
        ordered == {s \in Arrangements(rows) :
                        \A i \in 1..Len(s) : \A j \in 1..Len(s) :
                            i < j => ~ Before(s[j].base, s[i].base, stmt.order_by, 1)}
    IN  {Slice([i \in 1..Len(s) |-> s[i].base], stmt.offset, stmt.limit) :
            s \in ordered}

\* ModelManager.filter with base_stmt=None, options=None, unique=False
filter(m, t, order_by, where, limit, offset, simple_filters) ==
    Execute(m, t, {}, assemble_stmt(m, "model", order_by, where, limit, offset,
                                    simple_filters))

\* the statement of list and of paginated_list
list_stmt(m, order_by, filter_expressions, nullable_filter_expressions, where, limit, offset, simple_filters) ==
    LET kept_filter_bys == remove_optional_filter_bys(simple_filters)
        handled == handle_filter_expressions(filter_expressions)
        nullable == handle_nullable_filter_expressions(nullable_filter_expressions)
        \* filter_expressions | nullable_filter_expressions
        all_expressions == Merge(handled, nullable)
        stmt == assemble_stmt(m, "model", order_by, where, limit, offset,
                              kept_filter_bys)
        joined == get_joins(m, stmt, all_expressions, order_by)
    IN  [joined EXCEPT !.filter = all_expressions]

\* the dictionaries the caller passed, as the call leaves them: the handlers
\* work on the caller's objects, the union with `|` builds a new one
ArgumentsAfter(filter_expressions, nullable_filter_expressions) ==
    [filter_expressions |-> handle_filter_expressions(filter_expressions),
     nullable_filter_expressions |->
        handle_nullable_filter_expressions(nullable_filter_expressions)]

\* ModelManager.list with base_stmt=None, options=None, unique=False
list(m, t, related, order_by, filter_expressions, nullable_filter_expressions, where, limit, offset, simple_filters) ==
    Execute(m, t, related,
            list_stmt(m, order_by, filter_expressions,
                      nullable_filter_expressions, where, limit, offset,
                      simple_filters))

\* paginate(session, stmt) with the default parameters: the first page, which
\* holds every row of a table this small, and the total
paginate(m, t, related, stmt) ==
    {[items |-> rows, total |-> Len(rows)] : rows \in Execute(m, t, related, stmt)}

\* ModelManager.paginated_list with base_stmt=None, options=None
paginated_list(m, t, related, order_by, filter_expressions, nullable_filter_expressions, where, simple_filters) ==
    paginate(m, t, related,
             list_stmt(m, order_by, filter_expressions,
                       nullable_filter_expressions, where, NoLimit, NoLimit,
                       simple_filters))

Page(p) == [kind |-> "page", val |-> p.items, total |-> p.total]

Number(n) == [kind |-> "int", val |-> n]

\* **simple_filters of filter, list and count: None is a value like another
SimpleFiltersOf ==
    [m \in Models |->
        LET second == IF m = "parent" THEN "description" ELSE "parent_id"
            value == IF m = "parent" THEN "d" ELSE "p1"
        IN  {d \in UNION {[D -> {"a", value, NULL}] : D \in SUBSET {"title", second}} :
                /\ "title" \in DOMAIN d => d["title"] \in {"a", NULL}
                /\ second \in DOMAIN d => d[second] \in {value, NULL}}]

\* filter_expressions: own columns, and for Child the slug of its Parent
FilterExpressionsOf ==
    [m \in Models |->
        LET first == Attr(m, "title")
            second == IF m = "parent" THEN Attr("parent", "description")
                      ELSE Attr("parent", "slug")
            value == IF m = "parent" THEN "d" ELSE "x"
        IN  {d \in UNION {[D -> {"a", value, NULL}] : D \in SUBSET {first, second}} :
                /\ first \in DOMAIN d => d[first] \in {"a", NULL}
                /\ second \in DOMAIN d => d[second] \in {value, NULL}}]

\* nullable_filter_expressions: Parent.description, the nullable column, for
\* the Parent manager
NullableFilterExpressionsOf ==
    [m \in Models |->
        IF m = "parent"
        THEN {EmptyDict} \cup
             {[k \in {Attr("parent", "description")} |-> v] :
                    v \in {"null", "d", NULL}}
        ELSE {EmptyDict}]

Filter ==
    /\ pc = "idle"
    /\ \E order_by \in OrdersOf[model], where \in WheresOf[model],
          simple_filters \in SimpleFiltersOf[model] :
         \E rows \in filter(model, sess, order_by, where, NoLimit, NoLimit, simple_filters) :
            Reads("filter", [order_by |-> order_by, where |-> where,
                             simple_filters |-> simple_filters],
                  Returns(Objs(rows)))

List ==
    /\ pc = "idle"
    /\ \E order_by \in OrdersOf[model], where \in WheresOf[model],
          simple_filters \in SimpleFiltersOf[model],
          filter_expressions \in FilterExpressionsOf[model],
          nullable_filter_expressions \in NullableFilterExpressionsOf[model] :
         \E rows \in list(model, sess, parents, order_by, filter_expressions,
                          nullable_filter_expressions, where, NoLimit, NoLimit,
                          simple_filters) :
            Reads("list", [order_by |-> order_by, where |-> where,
                           simple_filters |-> simple_filters,
                           filter_expressions |-> filter_expressions,
                           nullable_filter_expressions |->
                                nullable_filter_expressions,
                           after |-> ArgumentsAfter(filter_expressions,
                                                    nullable_filter_expressions)],
                  Returns(Objs(rows)))

PaginatedList ==
    /\ pc = "idle"
    /\ \E order_by \in OrdersOf[model], where \in WheresOf[model],
          simple_filters \in SimpleFiltersOf[model],
          filter_expressions \in FilterExpressionsOf[model],
          nullable_filter_expressions \in NullableFilterExpressionsOf[model] :
         \E page \in paginated_list(model, sess, parents, order_by,
                                    filter_expressions,
                                    nullable_filter_expressions, where,
                                    simple_filters) :
            Reads("paginated_list",
                  [order_by |-> order_by, where |-> where,
                   simple_filters |-> simple_filters,
                   filter_expressions |-> filter_expressions,
                   nullable_filter_expressions |-> nullable_filter_expressions,
                   after |-> ArgumentsAfter(filter_expressions,
                                            nullable_filter_expressions)],
                  Returns(Page(page)))

\* the largest limit and offset a caller passes
MaxLimit == 1

\* filter called with limit and offset
FilterSlice ==
    /\ pc = "idle"
    /\ \E order_by \in OrdersOf[model], where \in WheresOf[model],
          simple_filters \in SimpleFiltersOf[model],
          limit \in {NoLimit} \cup 1..MaxLimit, offset \in {NoLimit} \cup 1..MaxLimit :
         \E rows \in filter(model, sess, order_by, where, limit, offset,
                            simple_filters) :
            Reads("filter", [order_by |-> order_by, where |-> where,
                             simple_filters |-> simple_filters,
                             filter_expressions |-> EmptyDict,
                             limit |-> limit, offset |-> offset],
                  Returns(Objs(rows)))

\* list called with limit and offset
ListSlice ==
    /\ pc = "idle"
    /\ \E order_by \in OrdersOf[model], where \in WheresOf[model],
          simple_filters \in SimpleFiltersOf[model],
          filter_expressions \in FilterExpressionsOf[model],
          limit \in {NoLimit} \cup 1..MaxLimit, offset \in {NoLimit} \cup 1..MaxLimit :
         \E rows \in list(model, sess, parents, order_by, filter_expressions,
                          EmptyDict, where, limit, offset, simple_filters) :
            Reads("list", [order_by |-> order_by, where |-> where,
                           simple_filters |-> simple_filters,
                           filter_expressions |-> filter_expressions,
                           limit |-> limit, offset |-> offset],
                  Returns(Objs(rows)))

Count ==
    /\ pc = "idle"
    /\ \E where \in WheresOf[model], simple_filters \in SimpleFiltersOf[model] :
            Reads("count", [order_by |-> NoOrder, where |-> where,
                            simple_filters |-> simple_filters],
                  Returns(Number(count(model, sess, where, simple_filters))))

-----------------------------------------------------------------------------
(* The caller's use of the session *)

\* `async with session.begin():` is entered; a session with a transaction
\* already begun refuses it
SessionBegin ==
    /\ pc = "idle"
    /\ ~ ctx
    /\ sess = db
    /\ ctx' = TRUE
    /\ UNCHANGED <<model, parents, db, sess, pc, last>>

\* the block of `async with session.begin():` is left: the context manager
\* commits
SessionBeginExit ==
    /\ pc = "idle"
    /\ ctx
    /\ db' = sess
    /\ ctx' = FALSE
    /\ UNCHANGED <<model, parents, sess, pc, last>>

\* `await session.commit()` by the caller (commit as you go)
SessionCommit ==
    /\ pc = "idle"
    /\ ~ ctx
    /\ sess # db
    /\ db' = sess
    /\ UNCHANGED <<model, parents, sess, ctx, pc, last>>

\* `await session.close()`, or an exception leaving the session's block: what
\* was not committed is rolled back
SessionClose ==
    /\ pc = "idle"
    /\ sess # db
    /\ sess' = db
    /\ ctx' = FALSE
    /\ UNCHANGED <<model, parents, db, pc, last>>

\* the awaited call hands its result (or exception) to the caller
Return ==
    /\ pc = "returned"
    /\ pc' = "idle"
    /\ last' = NoCall
    /\ UNCHANGED <<model, parents, db, sess, ctx>>

-----------------------------------------------------------------------------
(* Specification of the write path: the manager on an initially empty table *)

Init ==
    /\ model \in Models
    /\ parents = IF model = "child" THEN StoredParents ELSE {}
    /\ db = {}
    /\ sess = {}
    /\ ctx = FALSE
    /\ pc = "idle"
    /\ last = NoCall

Next ==
    \/ Create
    \/ Update
    \/ Delete
    \/ BulkCreate
    \/ BulkUpdate
    \/ BulkDelete
    \/ SessionBegin
    \/ SessionBeginExit
    \/ SessionCommit
    \/ SessionClose
    \/ Return

Spec == Init /\ [][Next]_vars

-----------------------------------------------------------------------------
(* Specification of the read path: the manager on any table the database   *)
(* can hold                                                                *)

\* the rows a table of model m can hold
StorableRows(m, ps) ==
    {r \in Rows(m) : WellTyped(m, r) /\ DBConstraintsOk(m, {r}, ps)}

\* the tables of at most n rows
RECURSIVE TablesOf(_, _, _)
TablesOf(m, ps, n) ==
    IF n = 0 THEN {{}}
    ELSE LET smaller == TablesOf(m, ps, n - 1)
         IN  smaller \cup
             {t \cup {r} : t \in smaller, r \in StorableRows(m, ps)}

InitQuery ==
    /\ model \in Models
    /\ parents = IF model = "child" THEN StoredParents ELSE {}
    /\ sess \in {t \in TablesOf(model, IdsOf(parents), MaxRows) :
                    DBConstraintsOk(model, t, IdsOf(parents))}
    /\ db = sess
    /\ ctx = FALSE
    /\ pc = "idle"
    /\ last = NoCall

NextQuery ==
    \/ Get
    \/ GetOr404
    \/ Exists
    \/ ExistsOr404
    \/ Return

SpecQuery == InitQuery /\ [][NextQuery]_vars

-----------------------------------------------------------------------------
(* Specification of the lists: filter, list, paginated_list and count on   *)
(* any table of the manager's model and any table of related Parent rows   *)

\* the Parent rows a Child may belong to
RelatedRows ==
    {[id |-> p, title |-> "a", slug |-> s, description |-> NULL] :
        p \in ParentIds, s \in Slugs}

InitList ==
    /\ model \in Models
    /\ parents \in IF model = "child"
                   THEN {ps \in SUBSET RelatedRows :
                            ps # {} /\ DBConstraintsOk("parent", ps, {})}
                   ELSE {{}}
    /\ sess \in {t \in TablesOf(model, IdsOf(parents), MaxRows) :
                    DBConstraintsOk(model, t, IdsOf(parents))}
    /\ db = sess
    /\ ctx = FALSE
    /\ pc = "idle"
    /\ last = NoCall

NextList ==
    \/ Filter
    \/ List
    \/ PaginatedList
    \/ Count
    \/ Return

SpecList == InitList /\ [][NextList]_vars

\* the same tables, read once by filter or list with limit and offset
NextSlice ==
    \/ FilterSlice
    \/ ListSlice

SpecSlice == InitList /\ [][NextSlice]_vars

-----------------------------------------------------------------------------
(* Specification of one write: one write operation called once, on any     *)
(* table the database can hold, in either session mode                     *)

InitStep ==
    /\ model \in Models
    /\ parents = IF model = "child" THEN StoredParents ELSE {}
    /\ sess \in {t \in TablesOf(model, IdsOf(parents), MaxRows) :
                    DBConstraintsOk(model, t, IdsOf(parents))}
    /\ db = sess
    /\ ctx \in BOOLEAN
    /\ pc = "idle"
    /\ last = NoCall

\* update called with a schema object and keyword attributes together
UpdateWithAttrs ==
    /\ pc = "idle"
    /\ \E db_obj \in sess, commit \in BOOLEAN :
       \E in_obj \in SchemaObjectsOf[model], exclude_unset \in BOOLEAN,
          attrs \in OverridesOf[model] :
            update(db_obj, in_obj, exclude_unset, attrs, commit)

NextStep ==
    \/ Create
    \/ Update
    \/ UpdateWithAttrs
    \/ Delete
    \/ BulkCreate
    \/ BulkUpdate
    \/ BulkDelete

SpecStep == InitStep /\ [][NextStep]_vars

-----------------------------------------------------------------------------
(* Specification of one write to a model whose UniqueConstraint is declared *)
(* with postgresql_nulls_not_distinct=True                                  *)

InitNullsNotDistinct ==
    /\ model = NullsNotDistinctParent
    /\ parents = {}
    /\ sess \in {t \in TablesOf(model, {}, MaxRows) : DBConstraintsOk(model, t, {})}
    /\ db = sess
    /\ ctx \in BOOLEAN
    /\ pc = "idle"
    /\ last = NoCall

NextNullsNotDistinct ==
    \/ Create
    \/ Update

SpecNullsNotDistinct == InitNullsNotDistinct /\ [][NextNullsNotDistinct]_vars

-----------------------------------------------------------------------------
(* Specification of one validated write to any model: create, update or     *)
(* bulk_create called once on any table the database can hold               *)

InitValidated ==
    /\ model \in MappedClasses
    /\ parents = IF model = "child" THEN StoredParents ELSE {}
    /\ sess \in {t \in TablesOf(model, IdsOf(parents), MaxRows) :
                    DBConstraintsOk(model, t, IdsOf(parents))}
    /\ db = sess
    /\ ctx \in BOOLEAN
    /\ pc = "idle"
    /\ last = NoCall

NextValidated ==
    \/ Create
    \/ Update
    \/ BulkCreate

SpecValidated == InitValidated /\ [][NextValidated]_vars

-----------------------------------------------------------------------------
(* Specification of two sessions calling create on one database.  Here db   *)
(* is the committed table and sess, pc and last hold one value per session: *)
(* the rows the session has flushed and not committed, the await its create *)
(* has reached, and the call's arguments and outcome.  A session reads the  *)
(* committed rows and its own; an INSERT waits while another transaction    *)
(* holds an uncommitted row with the same unique key.                       *)

Sessions == {"s1", "s2"}

\* the id uuid4 gives the object each session creates
NewIdOf == [s \in Sessions |-> IF s = "s1" THEN "i3" ELSE "i4"]

\* what session s reads
Visible(s) == db \cup sess[s]

\* rows that cannot be stored together
RowsConflict(r, q) ==
    ~ DBConstraintsOk(model, {r, q}, {}) /\ r # q

InitConcurrent ==
    /\ model = "parent"
    /\ parents = {}
    /\ db \in {t \in TablesOf(model, {}, 1) :
                  DBConstraintsOk(model, t, {}) /\ IdsOf(t) \subseteq {"i1"}}
    /\ sess = [s \in Sessions |-> {}]
    /\ ctx = FALSE
    /\ pc = [s \in Sessions |-> "idle"]
    /\ last = [s \in Sessions |-> NoCall]

\* create up to `await self.run_db_validation(...)`: the validators' SELECTs
CreateValidation(s) ==
    /\ pc[s] = "idle"
    /\ \E in_obj \in SchemaObjectsOf[model], commit \in BOOLEAN :
        LET given == model_dump(model, in_obj, FALSE)
            create_data == Merge(defaults(model), given)
            args == [in_obj |-> given, schema |-> in_obj, attrs |-> EmptyDict,
                     commit |-> commit, create_data |-> create_data]
            v == run_db_validation(model, Visible(s), {}, create_data, NoObj)
        IN  /\ last' = [last EXCEPT ![s] =
                            [Call("create", args, v.err, v.calls, [kind |-> "none"])
                                EXCEPT !.pre = [db |-> db, sess |-> sess[s],
                                                ctx |-> ctx]]]
            /\ pc' = [pc EXCEPT ![s] = IF v.err = NoErr THEN "validated"
                                       ELSE "returned"]
    /\ UNCHANGED <<model, parents, db, sess, ctx>>

\* session.add(db_obj) and the flush of save(): the INSERT.  The database
\* raises IntegrityError when a row the session can see conflicts, and makes
\* the statement wait while another session's uncommitted row does.
CreateFlush(s) ==
    /\ pc[s] = "validated"
    /\ LET db_obj == NewObject(model, NewIdOf[s], last[s].args.create_data)
           how == save(ctx, last[s].args.commit)
       IN  /\ \A o \in Sessions \ {s} : \A q \in sess[o] : ~ RowsConflict(db_obj, q)
           /\ IF DBConstraintsOk(model, Visible(s) \cup {db_obj}, {})
              THEN /\ sess' = [sess EXCEPT ![s] = @ \cup {db_obj}]
                   /\ pc' = [pc EXCEPT ![s] = "flushed"]
                   /\ last' = [last EXCEPT ![s].calls = @ \o <<"add", how>>,
                                           ![s].ret = Obj(db_obj)]
              ELSE /\ sess' = [sess EXCEPT ![s] = {}]
                   /\ pc' = [pc EXCEPT ![s] = "returned"]
                   /\ last' = [last EXCEPT
                                ![s].calls = @ \o <<"add", how>>,
                                ![s].err = OtherError("IntegrityError", "create")]
    /\ UNCHANGED <<model, parents, db, ctx>>

\* the rest of save() and session.refresh(db_obj): session.commit() makes the
\* session's rows durable, session.flush() leaves them pending
CreateReturn(s) ==
    /\ pc[s] = "flushed"
    /\ IF save(ctx, last[s].args.commit) = "commit"
       THEN db' = db \cup sess[s] /\ sess' = [sess EXCEPT ![s] = {}]
       ELSE UNCHANGED <<db, sess>>
    /\ pc' = [pc EXCEPT ![s] = "returned"]
    /\ last' = [last EXCEPT ![s].calls = @ \o <<"refresh">>]
    /\ UNCHANGED <<model, parents, ctx>>

\* the caller's own session.commit() after a create(commit=False)
CallerCommit(s) ==
    /\ pc[s] = "returned"
    /\ sess[s] # {}
    /\ db' = db \cup sess[s]
    /\ sess' = [sess EXCEPT ![s] = {}]
    /\ UNCHANGED <<model, parents, ctx, pc, last>>

NextConcurrent ==
    \E s \in Sessions :
        \/ CreateValidation(s)
        \/ CreateFlush(s)
        \/ CreateReturn(s)
        \/ CallerCommit(s)

SpecConcurrent == InitConcurrent /\ [][NextConcurrent]_vars

-----------------------------------------------------------------------------
(* Properties of the write path *)

Returned(ops) == pc = "returned" /\ last.op \in ops

WriteOps ==
    {"create", "bulk_create", "update", "bulk_update", "delete", "bulk_delete"}

\* the session calls that change the session or the database
WriteCalls == StatementCalls \cup {"add", "setattr", "delete", "flush", "commit"}

\* the session calls the validators make
ValidationCalls == {"get", "execute(select)"}

Raised422 ==
    last.err.exc = "HTTPException" /\ last.err.status = 422

\* the values a create or update call is about to write
WrittenData ==
    IF last.op = "update" THEN Merge(last.args.db_obj, last.args.in_obj)
    ELSE Merge(defaults(model), last.args.in_obj)

\* the stored rows other than the one the call writes
OtherRows ==
    IF last.op = "update" THEN last.pre.sess \ {last.args.db_obj}
    ELSE last.pre.sess

\* some unique column is to be written with a non-null value another row holds
UniqueFieldTaken ==
    \E c \in UniqueColumns(model) \cap DOMAIN WrittenData :
        /\ WrittenData[c] # NULL
        /\ \E r \in OtherRows : r[c] = WrittenData[c]

\* C1: create and update raise HTTPException 422 whenever the value to be
\* written to a unique column is non-null and held by a different stored row.
C1_UniqueFieldRejected ==
    (Returned({"create", "update"}) /\ UniqueFieldTaken) => Raised422

C1_Witness ==
    /\ Returned({"update"})
    /\ UniqueFieldTaken
    /\ Raised422
    /\ last.err.detail[2] = "unique_field"

\* the values to be written equal another row's on every column of some
\* UniqueConstraint, all of them non-null
UniqueConstraintTaken ==
    \E i \in 1..Len(unique_constraints(model)) :
        LET cols == Range(unique_constraints(model)[i])
        IN  /\ cols \subseteq DOMAIN WrittenData
            /\ \A c \in cols : WrittenData[c] # NULL
            /\ \E r \in OtherRows : \A c \in cols : r[c] = WrittenData[c]

\* C2: create and update raise HTTPException 422 whenever the values to be
\* written equal a different stored row's on every column of a declared
\* UniqueConstraint, all of them non-null.
C2_UniqueConstraintRejected ==
    (Returned({"create", "update"}) /\ UniqueConstraintTaken) => Raised422

C2_Witness ==
    /\ Returned({"update"})
    /\ UniqueConstraintTaken
    /\ Raised422
    /\ last.err.detail[2] = "unique_constraint"
    /\ "title" \notin DOMAIN last.args.in_obj

\* a foreign key of the written data names a row that does not exist
ForeignKeyMissing ==
    \E k \in (DOMAIN fk_name_to_model(model)) \cap DOMAIN WrittenData :
        WrittenData[k] # NULL /\ WrittenData[k] \notin IdsOf(parents)

RaisedByFkCheck ==
    Raised422 /\ last.err.detail[2] = "fk"

\* C3: create and update raise HTTPException 422 whenever a foreign key of the
\* written data is non-null and no row of the referenced model has that id;
\* the check never rejects a null foreign key.
C3_ForeignKeyRejected ==
    Returned({"create", "update"}) =>
        /\ ForeignKeyMissing => RaisedByFkCheck
        /\ RaisedByFkCheck => ForeignKeyMissing

C3_Witness ==
    /\ Returned({"update"})
    /\ ForeignKeyMissing
    /\ RaisedByFkCheck

\* C4: in create, update and bulk_create every validation query precedes the
\* first write: a call that ends with a validation HTTPException has made no
\* writing session call, and the tables are as they were before the call.
C4_ValidationBeforeWrites ==
    Returned({"create", "update", "bulk_create"}) =>
        /\ \A i \in 1..Len(last.calls) : \A j \in 1..Len(last.calls) :
                (last.calls[i] \in WriteCalls /\ i < j)
                    => last.calls[j] \notin ValidationCalls
        /\ last.err.exc = "HTTPException" =>
                /\ Range(last.calls) \subseteq ValidationCalls
                /\ sess = last.pre.sess
                /\ db = last.pre.db

C4_Witness ==
    /\ Returned({"bulk_create"})
    /\ last.err.exc = "HTTPException"
    /\ Len(last.calls) > 1
    /\ sess = last.pre.sess
    /\ sess # db

\* C5 as claimed: every error outcome of a manager call is an HTTPException.
C5_OnlyHTTPException ==
    Returned(WriteOps) => last.err.exc \in {"none", "HTTPException"}

\* C9: on a commit-as-you-go session, create with commit=False flushes and
\* never commits, and its row is in the session's transaction only, so closing
\* the session without a commit loses it; create with commit=True commits and
\* its row is durable.
C9_CommitFlag ==
    (Returned({"create"}) /\ ~ last.pre.ctx /\ last.err = NoErr) =>
        IF last.args.commit
        THEN /\ "commit" \in Range(last.calls)
             /\ last.ret.val \in db
        ELSE /\ "flush" \in Range(last.calls)
             /\ "commit" \notin Range(last.calls)
             /\ last.ret.val \in sess
             /\ last.ret.val \notin db
             /\ db = last.pre.db

C9_Witness ==
    /\ Returned({"create"})
    /\ ~ last.pre.ctx
    /\ last.err = NoErr
    /\ ~ last.args.commit
    /\ last.ret.val \in sess \ db
    /\ db # {}

\* C10: inside `async with session.begin()` no write operation of the manager
\* calls session.commit(), whatever its commit argument: the transaction stays
\* open and nothing becomes durable.
C10_NoCommitInBeginOnce ==
    (Returned(WriteOps) /\ last.pre.ctx) =>
        /\ "commit" \notin Range(last.calls)
        /\ db = last.pre.db
        /\ ctx

C10_Witness ==
    /\ Returned({"bulk_update"})
    /\ last.pre.ctx
    /\ last.args.commit
    /\ last.err = NoErr
    /\ sess # last.pre.sess

-----------------------------------------------------------------------------
(* Properties of the read path *)

\* the stored rows that satisfy the where expression and the simple filters
\* of the call
Matching ==
    {r \in last.pre.sess :
        /\ \A i \in 1..Len(last.args.simple_filters) :
                LET key == last.args.simple_filters[i][1]
                    value == last.args.simple_filters[i][2]
                IN  IF value = NULL THEN r[key] = NULL ELSE r[key] = value
        /\ WhereHolds(r, last.args.where)}

Raised404 ==
    last.err.exc = "HTTPException" /\ last.err.status = 404

\* C6 as claimed: get returns None if and only if no stored row satisfies the
\* where expression and the simple filters, and whenever one or more rows
\* satisfy them it returns one of those rows.
C6_GetReturnsAMatchingRow ==
    Returned({"get"}) =>
        /\ last.ret.kind = "None" <=> Matching = {}
        /\ Matching # {} => (last.ret.kind = "object" /\ last.ret.val \in Matching)

\* the detail of the 404, piece by piece: the table name, " with ", the
\* k=v pairs in the order given with ", " between them, ", " and the where
\* expression if one is given, and the closing words
DetailIs(what) ==
    LET d == last.err.detail
        kw == last.args.simple_filters
        n == Len(kw)
        pairs == IF n = 0 THEN 0 ELSE 4 * n - 1
        w == IF last.args.where = NoWhere THEN << >>
             ELSE <<", ">> \o str_where(model, last.args.where)
    IN  /\ Len(d) = 2 + pairs + Len(w) + 1
        /\ d[1] = model
        /\ d[2] = " with "
        /\ \A i \in 1..n :
                /\ d[4 * i - 1] = kw[i][1]
                /\ d[4 * i] = "="
                /\ d[4 * i + 1] = (IF kw[i][2] = NULL THEN "None" ELSE kw[i][2])
                /\ i < n => d[4 * i + 2] = ", "
        /\ \A j \in 1..Len(w) : d[2 + pairs + j] = w[j]
        /\ d[Len(d)] = what

\* C7: get_or_404 raises HTTPException 404 exactly when no row matches, with
\* the detail "<tablename> with <k=v pairs joined by ', '>", then ", <where>"
\* when a where expression is given, then " not found"; when a row matches,
\* its outcome is one get has for the same arguments.
C7_GetOr404 ==
    Returned({"get_or_404"}) =>
        /\ Raised404 <=> Matching = {}
        /\ Raised404 => DetailIs(" not found")
        /\ Matching # {} =>
                [err |-> last.err, ret |-> last.ret]
                    \in get(model, last.pre.sess, last.args.order_by,
                            last.args.where, Dict(last.args.simple_filters))
        /\ last.err = NoErr => last.ret.val \in Matching

C7_Witness ==
    /\ Returned({"get_or_404"})
    /\ Raised404
    /\ Len(last.args.simple_filters) = 2
    /\ last.args.where # NoWhere
    /\ last.pre.sess # {}

\* C8: exists returns True if and only if at least one stored row satisfies
\* the where expression and the simple filters; exists_or_404 returns True in
\* exactly those cases and otherwise raises HTTPException 404, so it never
\* returns False.
C8_Exists ==
    /\ Returned({"exists"}) =>
            /\ last.err = NoErr
            /\ last.ret.kind = "bool"
            /\ last.ret.val <=> Matching # {}
    /\ Returned({"exists_or_404"}) =>
            IF Matching # {}
            THEN last.err = NoErr /\ last.ret = Bool(TRUE)
            ELSE Raised404 /\ DetailIs(" does not exist")

C8_Witness ==
    /\ Returned({"exists_or_404"})
    /\ Raised404
    /\ last.args.where # NoWhere
    /\ \E r \in last.pre.sess : WhereHolds(r, last.args.where)

-----------------------------------------------------------------------------
(* Properties of one write *)

\* C11: after a successful create the stored rows are the previous rows plus
\* exactly one new row; the new row carries the values of in_obj overridden by
\* attrs; get filtered by those values returns the instance create returned;
\* count has grown by exactly one.
C11_CreateAddsOneRow ==
    (Returned({"create"}) /\ last.err = NoErr) =>
        LET new == last.ret.val
            set == last.args.schema.fields_set
            attrs == last.args.attrs
            values == last.args.in_obj
        IN  /\ last.ret.kind = "object"
            /\ new \notin last.pre.sess
            /\ sess = last.pre.sess \cup {new}
            /\ \A c \in DOMAIN attrs : new[c] = attrs[c]
            /\ \A c \in (DOMAIN set) \ (DOMAIN attrs) : new[c] = set[c]
            /\ DOMAIN values = (DOMAIN set) \cup (DOMAIN attrs)
                    \cup (IF last.args.schema.given
                          THEN DOMAIN SchemaDefaults(model) ELSE {})
            /\ \A c \in DOMAIN values : new[c] = values[c]
            /\ get(model, sess, NoOrder, NoWhere, values) = {Returns(Obj(new))}
            /\ count(model, sess, NoWhere, EmptyDict)
                    = count(model, last.pre.sess, NoWhere, EmptyDict) + 1

C11_Witness ==
    /\ Returned({"create"})
    /\ last.err = NoErr
    /\ last.pre.sess # {}
    /\ last.args.schema.given
    /\ "title" \in DOMAIN last.args.attrs
    /\ last.args.schema.fields_set["title"] # last.args.attrs["title"]
    /\ last.ret.val["title"] = last.args.attrs["title"]
    /\ Cardinality(sess) = Cardinality(last.pre.sess) + 1

\* C12: after a successful delete(db_obj) no row with db_obj's id is stored
\* (get by that id returns None, exists returns False), every other row is
\* unchanged, and delete returns the very object it was given.
C12_DeleteRemovesTheRow ==
    (Returned({"delete"}) /\ last.err = NoErr) =>
        LET db_obj == last.args.db_obj
            by_id == [k \in {"id"} |-> db_obj["id"]]
        IN  /\ \A r \in sess : r["id"] # db_obj["id"]
            /\ get(model, sess, NoOrder, NoWhere, by_id) = {Returns(None)}
            /\ ~exists(model, sess, NoWhere, by_id)
            /\ sess = last.pre.sess \ {db_obj}
            /\ last.ret = Obj(db_obj)

C12_Witness ==
    /\ Returned({"delete"})
    /\ last.err = NoErr
    /\ Cardinality(last.pre.sess) = 2
    /\ Cardinality(sess) = 1
    /\ last.args.db_obj \notin sess

\* C13: a successful update with exclude_unset=True changes only the fields
\* set in in_obj or passed in attrs; with exclude_unset=False every schema
\* field that was not set is overwritten with its schema default.  In both
\* modes attrs win over in_obj and the set fields are written.
C13_ExcludeUnset ==
    (Returned({"update"}) /\ last.err = NoErr) =>
        LET db_obj == last.args.db_obj
            new == last.ret.val
            set == last.args.schema.fields_set
            attrs == last.args.attrs
            given == (DOMAIN set) \cup (DOMAIN attrs)
            unset == IF last.args.schema.given
                     THEN (DOMAIN SchemaDefaults(model)) \ given ELSE {}
        IN  /\ \A c \in DOMAIN attrs : new[c] = attrs[c]
            /\ \A c \in (DOMAIN set) \ (DOMAIN attrs) : new[c] = set[c]
            /\ last.args.exclude_unset =>
                    \A c \in Columns(model) \ given : new[c] = db_obj[c]
            /\ ~last.args.exclude_unset =>
                    /\ \A c \in unset : new[c] = SchemaDefaults(model)[c]
                    /\ \A c \in Columns(model) \ (given \cup unset) :
                            new[c] = db_obj[c]

C13_Witness ==
    /\ Returned({"update"})
    /\ last.err = NoErr
    /\ last.args.schema.given
    /\ ~last.args.exclude_unset
    /\ "description" \notin DOMAIN last.args.schema.fields_set
    /\ last.args.db_obj["description"] # NULL
    /\ last.ret.val["description"] = NULL

-----------------------------------------------------------------------------
(* Properties of the read path: ordering *)

\* C18: get called with order_by returns None when no row satisfies the
\* filters and otherwise, however many rows satisfy them, the first of them
\* in that order: the smallest value for an ascending column, the largest
\* for column.desc().
C18_GetWithOrderBy ==
    (Returned({"get"}) /\ last.args.order_by # NoOrder) =>
        LET col == last.args.order_by.col
        IN  /\ last.err = NoErr
            /\ Matching = {} => last.ret = None
            /\ Matching # {} =>
                    /\ last.ret.kind = "object"
                    /\ last.ret.val \in Matching
                    /\ \A q \in Matching :
                            IF last.args.order_by.desc
                            THEN Rank(q[col]) <= Rank(last.ret.val[col])
                            ELSE Rank(last.ret.val[col]) <= Rank(q[col])

C18_Witness ==
    /\ Returned({"get"})
    /\ last.args.order_by # NoOrder
    /\ last.args.order_by.desc
    /\ Cardinality(Matching) = 2
    /\ last.ret.kind = "object"
    /\ \E q \in Matching : Rank(q["title"]) < Rank(last.ret.val["title"])

-----------------------------------------------------------------------------
(* Properties of filter, list, paginated_list and count *)

\* the value a row has for an attribute: its own column or, for a column of
\* Parent, the column of the Parent row its parent_id names
AttrValue(r, k) ==
    IF k.model = model THEN r[k.col]
    ELSE LET p == CHOOSE p \in parents : p["id"] = r["parent_id"] IN p[k.col]

\* the row satisfies the where expression of the call
SatisfiesWhere(r) ==
    CASE last.args.where.op = "none" -> TRUE
      [] last.args.where.op = "==" -> r[last.args.where.col] = last.args.where.val
      [] last.args.where.op = "!=" ->
            r[last.args.where.col] \notin {NULL, last.args.where.val}

\* the row satisfies every given entry: equality, and NULL for a None value
SatisfiesAll(r, entries) ==
    \A k \in DOMAIN entries : r[k] = entries[k]

\* the row satisfies every entry whose value is not None
SatisfiesGiven(r, entries) ==
    \A k \in DOMAIN entries : entries[k] # NULL => r[k] = entries[k]

\* the same for entries keyed by attributes, those of `skipped` left out
SatisfiesExpressions(r, entries, skipped) ==
    \A k \in (DOMAIN entries) \ skipped :
        entries[k] # NULL => AttrValue(r, k) = entries[k]

WithoutNone(entries) ==
    [k \in {k \in DOMAIN entries : entries[k] # NULL} |-> entries[k]]

\* C14: filter without limit and offset returns exactly the stored rows that
\* satisfy the where expression and every simple filter, each of them once;
\* a simple filter whose value is None selects the rows whose column is NULL.
C14_FilterReturnsMatchingRows ==
    Returned({"filter"}) =>
        LET expected == {r \in sess : /\ SatisfiesWhere(r)
                                      /\ SatisfiesAll(r, last.args.simple_filters)}
        IN  /\ last.err = NoErr
            /\ last.ret.kind = "objects"
            /\ Range(last.ret.val) = expected
            /\ Len(last.ret.val) = Cardinality(expected)
            /\ \A k \in DOMAIN last.args.simple_filters :
                    last.args.simple_filters[k] = NULL =>
                        \A i \in 1..Len(last.ret.val) : last.ret.val[i][k] = NULL

C14_Witness ==
    /\ Returned({"filter"})
    /\ "description" \in DOMAIN last.args.simple_filters
    /\ last.args.simple_filters["description"] = NULL
    /\ Len(last.ret.val) = 1
    /\ last.ret.val[1]["description"] = NULL
    /\ \E r \in sess : r["description"] # NULL

\* C15 as claimed: list and paginated_list skip every simple filter and
\* every filter_expressions entry whose value is None, so that the call
\* returns what the same call without those entries may return, while every
\* entry with another value restricts the result to the rows that satisfy it.
C15_NoneFiltersSkipped ==
    Returned({"list", "paginated_list"}) =>
        LET restricted == {r \in sess :
                /\ SatisfiesWhere(r)
                /\ SatisfiesGiven(r, last.args.simple_filters)
                /\ SatisfiesExpressions(r, last.args.filter_expressions, {})}
        IN  /\ last.err = NoErr
            /\ Range(last.ret.val) \subseteq restricted
            /\ last.args.nullable_filter_expressions = EmptyDict =>
                    /\ Range(last.ret.val) = restricted
                    /\ Len(last.ret.val) = Cardinality(restricted)
            /\ last.ret.val \in list(model, sess, parents, last.args.order_by,
                                     WithoutNone(last.args.filter_expressions),
                                     last.args.nullable_filter_expressions,
                                     last.args.where, NoLimit, NoLimit,
                                     WithoutNone(last.args.simple_filters))

\* C16: an entry of nullable_filter_expressions whose value is a null query
\* value selects exactly the rows whose column is NULL, one whose value is
\* None is no filter, and one with another value selects exactly the rows
\* whose column equals it (in each case among the rows that satisfy the rest
\* of the call).
C16_NullableFilterExpressions ==
    Returned({"list", "paginated_list"}) =>
        \A k \in DOMAIN last.args.nullable_filter_expressions :
            LET value == last.args.nullable_filter_expressions[k]
                others == {r \in sess :
                    /\ SatisfiesWhere(r)
                    /\ SatisfiesGiven(r, last.args.simple_filters)
                    /\ SatisfiesExpressions(r, last.args.filter_expressions,
                                            IF value = NULL THEN {} ELSE {k})}
            IN  /\ last.err = NoErr
                /\ value \in null_query_values =>
                        Range(last.ret.val) =
                            {r \in others : AttrValue(r, k) = NULL}
                /\ value = NULL => Range(last.ret.val) = others
                /\ value \notin null_query_values \cup {NULL} =>
                        Range(last.ret.val) =
                            {r \in others : AttrValue(r, k) = value}

C16_Witness ==
    /\ Returned({"list"})
    /\ \E k \in DOMAIN last.args.nullable_filter_expressions :
            /\ last.args.nullable_filter_expressions[k] = "null"
            /\ Len(last.ret.val) = 1
            /\ AttrValue(last.ret.val[1], k) = NULL
            /\ \E r \in sess : AttrValue(r, k) # NULL

\* r comes no later than q under the ordering o
NoLater(r, q, o) ==
    IF o.desc THEN Rank(q[o.col]) <= Rank(r[o.col])
    ELSE Rank(r[o.col]) <= Rank(q[o.col])

\* C17: the rows filter and list return are sorted by order_by (ascending for
\* a column, descending for column.desc()), rows equal in it by the manager's
\* default_ordering when one is configured; without order_by they are sorted
\* by default_ordering alone.
C17_Sorted ==
    Returned({"filter", "list"}) =>
        \A i \in 1..Len(last.ret.val) : \A j \in 1..Len(last.ret.val) :
            i < j =>
                LET r == last.ret.val[i]
                    q == last.ret.val[j]
                    o == last.args.order_by
                    d == default_ordering(model)
                IN  IF o # NoOrder
                    THEN /\ NoLater(r, q, o)
                         /\ (d # NoOrder /\ r[o.col] = q[o.col]) => NoLater(r, q, d)
                    ELSE d # NoOrder => NoLater(r, q, d)

C17_Witness ==
    /\ Returned({"list"})
    /\ last.args.order_by = [col |-> "parent_id", desc |-> FALSE]
    /\ Len(last.ret.val) = 2
    /\ last.ret.val[1]["parent_id"] = last.ret.val[2]["parent_id"]
    /\ last.ret.val[1]["title"] = "a"
    /\ last.ret.val[2]["title"] = "b"
    /\ last.ret.val[1]["id"] = "i2"

\* the filter_expressions entries of the call on columns of the related model
RelatedExpressions ==
    {k \in DOMAIN last.args.filter_expressions :
        k.model # model /\ last.args.filter_expressions[k] # NULL}

\* C19: list with a filter_expressions entry on a column of the Parent of the
\* manager's model returns exactly the rows of the manager's model whose
\* Parent row satisfies it (and that satisfy the rest of the call), each
\* once: the manager joins the Parent itself.
C19_RelatedModelFilter ==
    (Returned({"list"}) /\ RelatedExpressions # {}) =>
        LET expected == {r \in sess :
                /\ SatisfiesWhere(r)
                /\ SatisfiesGiven(r, last.args.simple_filters)
                /\ \A k \in DOMAIN last.args.filter_expressions :
                        (k.model = model /\ last.args.filter_expressions[k] # NULL)
                            => r[k.col] = last.args.filter_expressions[k]
                /\ \A k \in RelatedExpressions :
                        \E p \in parents :
                            /\ p["id"] = r["parent_id"]
                            /\ p[k.col] = last.args.filter_expressions[k]}
        IN  /\ last.err = NoErr
            /\ Range(last.ret.val) = expected
            /\ Len(last.ret.val) = Cardinality(expected)

C19_Witness ==
    /\ Returned({"list"})
    /\ RelatedExpressions # {}
    /\ Cardinality(parents) = 2
    /\ Cardinality(sess) = 2
    /\ Len(last.ret.val) = 1
    /\ \E p \in parents :
            p["id"] = last.ret.val[1]["parent_id"] /\ p["slug"] = "x"
    /\ \E r \in sess : \E p \in parents :
            p["id"] = r["parent_id"] /\ p["slug"] # "x"

\* C20: count returns the number of stored rows that satisfy the where
\* expression and the simple filters, 0 when there is none, and that is the
\* length of every list filter can return for the same arguments.
C20_Count ==
    Returned({"count"}) =>
        LET expected == {r \in sess : /\ SatisfiesWhere(r)
                                      /\ SatisfiesAll(r, last.args.simple_filters)}
        IN  /\ last.err = NoErr
            /\ last.ret.kind = "int"
            /\ last.ret.val = Cardinality(expected)
            /\ expected = {} => last.ret.val = 0
            /\ \A rows \in filter(model, sess, NoOrder, last.args.where, NoLimit,
                                  NoLimit, last.args.simple_filters) :
                    Len(rows) = last.ret.val

C20_Witness ==
    /\ Returned({"count"})
    /\ last.args.where # NoWhere
    /\ last.args.simple_filters # EmptyDict
    /\ last.ret.val = 1
    /\ Cardinality(sess) = 2

-----------------------------------------------------------------------------
(* Properties of the bulk operations *)

\* C21 as claimed: bulk_update and bulk_delete called with an ids collection
\* affect exactly the rows whose id is in ids and leave every other row
\* unchanged, for every ids collection including an empty one; where is used
\* only when ids is not passed.
C21_BulkIds ==
    (Returned({"bulk_update", "bulk_delete"}) /\ last.err = NoErr
        /\ last.args.ids.given) =>
        LET named == {r \in last.pre.sess : r["id"] \in last.args.ids.ids}
        IN  /\ \A r \in last.pre.sess \ named : r \in sess
            /\ IF last.op = "bulk_delete"
               THEN sess = last.pre.sess \ named
               ELSE sess = (last.pre.sess \ named)
                            \cup {Merge(r, last.args.in_obj) : r \in named}

\* the objects of the batch that the database validation rejects, given the
\* rows stored before the call
FailingObjects ==
    {i \in 1..Len(last.args.in_objs) :
        run_db_validation(model, last.pre.sess, IdsOf(parents),
                          last.args.in_objs[i], NoObj).err # NoErr}

\* the INSERT statements of the call
Inserts == {i \in 1..Len(last.calls) : last.calls[i] = "execute(insert)"}

\* the objects of the batch are stored, one new row each
BatchStored ==
    /\ last.ret.kind = "objects"
    /\ Len(last.ret.val) = Len(last.args.in_objs)
    /\ sess = last.pre.sess \cup Range(last.ret.val)
    /\ Cardinality(sess) = Cardinality(last.pre.sess) + Len(last.args.in_objs)
    /\ \A i \in 1..Len(last.ret.val) :
            \A c \in DOMAIN last.args.in_objs[i] :
                last.ret.val[i][c] = last.args.in_objs[i][c]

\* two objects of the batch cannot be stored together: they have the same
\* non-null value in a unique column or in all columns of a UniqueConstraint
BatchConflict ==
    \E i \in 1..Len(last.args.in_objs) : \E j \in 1..Len(last.args.in_objs) :
        /\ i # j
        /\ LET a == last.args.in_objs[i]
               b == last.args.in_objs[j]
           IN  \/ \E c \in UniqueColumns(model) : a[c] # NULL /\ a[c] = b[c]
               \/ \E k \in 1..Len(unique_constraints(model)) :
                    \A c \in Range(unique_constraints(model)[k]) :
                        a[c] # NULL /\ a[c] = b[c]

-----------------------------------------------------------------------------
(* Properties of the uniqueness validation *)

\* the update passes again the value db_obj holds in a unique column, or the
\* values it holds in all the columns of a UniqueConstraint
ResubmitsOwnValues ==
    LET given == last.args.in_obj
        own == last.args.db_obj
    IN  \/ \E c \in UniqueColumns(model) \cap DOMAIN given : given[c] = own[c]
        \/ \E i \in 1..Len(unique_constraints(model)) :
              \A c \in Range(unique_constraints(model)[i]) :
                  c \in DOMAIN given /\ given[c] = own[c]

RaisedFor(kind) ==
    Raised422 /\ Len(last.err.detail) >= 2 /\ last.err.detail[2] = kind

\* a row other than the written one holds the value written to column c
OtherRowHolds(c) ==
    \E r \in OtherRows : r[c] = WrittenData[c]

\* a row other than the written one agrees with the written values on every
\* column of the constraint the validators compare
OtherRowCompared(cols) ==
    \E r \in OtherRows :
        \A c \in cols : WrittenData[c] = NULL \/ r[c] = WrittenData[c]

\* C23: an update that resubmits db_obj's current value of a unique column, or
\* its current values of all columns of a UniqueConstraint, is rejected for
\* uniqueness only when a row with a different id holds the compared values;
\* db_obj's own row never causes the rejection.
C23_OwnRowNotCompared ==
    (Returned({"update"}) /\ ResubmitsOwnValues) =>
        /\ RaisedFor("unique_field") => OtherRowHolds(last.err.detail[3])
        /\ RaisedFor("unique_constraint") =>
                OtherRowCompared(Range(last.err.detail[3]))

C23_Witness ==
    /\ Returned({"update"})
    /\ model = "parent"
    /\ last.args.in_obj = Restrict(last.args.db_obj, {"title", "slug", "description"})
    /\ last.args.db_obj["description"] # NULL
    /\ Cardinality(last.pre.sess) = 2
    /\ last.err = NoErr
    /\ last.ret = Obj(last.args.db_obj)
    /\ sess = last.pre.sess

\* the data the validators see holds every column of the constraint
HoldsColumns(cols) ==
    cols \subseteq DOMAIN WrittenData

\* a row other than the written one equals the written values on every column
OtherRowEquals(cols) ==
    \E r \in OtherRows : \A c \in cols : r[c] = WrittenData[c]

\* C24: for a UniqueConstraint declared with postgresql_nulls_not_distinct,
\* data holding NULL in any column of the constraint is never rejected for the
\* constraint; data with every column non-null is rejected with status 422
\* whenever a different stored row equals it on all the columns, and is
\* rejected for the constraint only then.
C24_NullsIgnored ==
    Returned({"create", "update"}) =>
        \A i \in 1..Len(nullable_unique_constraints(model)) :
            LET cols == Range(nullable_unique_constraints(model)[i])
            IN  HoldsColumns(cols) =>
                    IF \E c \in cols : WrittenData[c] = NULL
                    THEN ~ RaisedFor("unique_constraint")
                    ELSE /\ OtherRowEquals(cols) => Raised422
                         /\ RaisedFor("unique_constraint") => OtherRowEquals(cols)

C24_Witness ==
    /\ Returned({"create"})
    /\ nullable_unique_constraints(model) # << >>
    /\ HoldsColumns({"title", "description"})
    /\ WrittenData["description"] = NULL
    /\ \E r \in OtherRows :
            r["title"] = WrittenData["title"] /\ r["description"] = "d"
    /\ last.err = NoErr
    /\ Cardinality(sess) = Cardinality(last.pre.sess) + 1

\* C25: create or update is rejected for a UniqueConstraint only if a different
\* stored row agrees with the data to write on every column of the constraint;
\* NULL in one column with the remaining columns shared is no reason to reject.
C25_NoFalsePositives ==
    (Returned({"create", "update"}) /\ RaisedFor("unique_constraint")) =>
        OtherRowEquals(Range(last.err.detail[3]))

\* the call got past run_db_validation: it made a call that writes
ValidationPassed ==
    \E i \in 1..Len(last.calls) : last.calls[i] \in WriteCalls

Val(d, c) == IF c \in DOMAIN d THEN d[c] ELSE NULL

\* the database's rule: data d cannot be stored next to row r
Conflict(d, r) ==
    \/ \E c \in UniqueColumns(model) : Val(d, c) # NULL /\ Val(d, c) = Val(r, c)
    \/ \E i \in 1..Len(unique_constraints(model)) :
          \A c \in Range(unique_constraints(model)[i]) :
              Val(d, c) # NULL /\ Val(d, c) = Val(r, c)
    \/ \E i \in 1..Len(nullable_unique_constraints(model)) :
          \A c \in Range(nullable_unique_constraints(model)[i]) :
              Val(d, c) = Val(r, c)

\* the same, with NULL in a nulls-not-distinct constraint taken as distinct
ConflictApartFromNulls(d, r) ==
    \/ \E c \in UniqueColumns(model) : Val(d, c) # NULL /\ Val(d, c) = Val(r, c)
    \/ \E i \in 1..Len(unique_constraints(model)) :
          \A c \in Range(unique_constraints(model)[i]) :
              Val(d, c) # NULL /\ Val(d, c) = Val(r, c)
    \/ \E i \in 1..Len(nullable_unique_constraints(model)) :
          \A c \in Range(nullable_unique_constraints(model)[i]) :
              Val(d, c) # NULL /\ Val(d, c) = Val(r, c)

\* the objects the call writes
DataToWrite ==
    IF last.op = "bulk_create" THEN last.args.in_objs ELSE <<WrittenData>>

-----------------------------------------------------------------------------
(* Properties of concurrent sessions *)

\* both sessions have called create with the same value of a unique column,
\* and both calls have ended
BothCreatedSame ==
    /\ \A s \in Sessions : pc[s] = "returned" /\ last[s].op = "create"
    /\ \E c \in UniqueColumns(model) :
          \A s \in Sessions : \A o \in Sessions :
              /\ last[s].args.create_data[c] # NULL
              /\ last[s].args.create_data[c] = last[o].args.create_data[c]

\* C27: when two sessions run create concurrently with the same value of a
\* unique column, at most one of them stores a row and the other ends with
\* HTTPException 422, never with a database-level error.
C27_ConcurrentCreate ==
    BothCreatedSame =>
        /\ Cardinality({s \in Sessions : last[s].err = NoErr}) <= 1
        /\ \A s \in Sessions :
               last[s].err # NoErr =>
                   last[s].err.exc = "HTTPException" /\ last[s].err.status = 422

-----------------------------------------------------------------------------
(* Properties of commit-as-you-go sessions *)

\* C28: on a commit-as-you-go session a write call with commit=True makes
\* durable every pending change of the session, those of earlier calls with
\* commit=False included: when it returns, the database holds the session's
\* rows.
C28_CommitCoversPending ==
    (Returned(WriteOps) /\ ~ last.pre.ctx /\ last.err = NoErr /\ last.args.commit)
        => /\ "commit" \in Range(last.calls)
           /\ db = sess

C28_Witness ==
    /\ Returned({"create"})
    /\ ~ last.pre.ctx
    /\ last.err = NoErr
    /\ last.args.commit
    /\ \E r \in last.pre.sess \ last.pre.db : r \in db /\ r # last.ret.val
    /\ last.ret.val \in db

-----------------------------------------------------------------------------
(* Properties of list and paginated_list *)

\* what the same call returns when it is made again with the dictionaries as
\* the first call left them
Repeated ==
    LET a == last.args
    IN  IF last.op = "list"
        THEN {Objs(rows) : rows \in
                list(model, sess, parents, a.order_by, a.after.filter_expressions,
                     a.after.nullable_filter_expressions, a.where, NoLimit, NoLimit,
                     a.simple_filters)}
        ELSE {Page(p) : p \in
                paginated_list(model, sess, parents, a.order_by,
                               a.after.filter_expressions,
                               a.after.nullable_filter_expressions, a.where,
                               a.simple_filters)}

\* C29: list and paginated_list leave the filter_expressions and
\* nullable_filter_expressions mappings they were passed with the same entries,
\* so the same call made again returns the same rows.
C29_ArgumentsUnchanged ==
    Returned({"list", "paginated_list"}) =>
        /\ last.args.after.filter_expressions = last.args.filter_expressions
        /\ last.args.after.nullable_filter_expressions
                = last.args.nullable_filter_expressions
        /\ last.ret \in Repeated

\* the rows that satisfy the whole call: where, the simple filters (for list,
\* those that are not None) and every filter_expressions entry
FullyFiltered ==
    {r \in sess :
        /\ SatisfiesWhere(r)
        /\ IF last.op = "filter" THEN SatisfiesAll(r, last.args.simple_filters)
           ELSE SatisfiesGiven(r, last.args.simple_filters)
        /\ \A k \in DOMAIN last.args.filter_expressions :
              last.args.filter_expressions[k] # NULL =>
                IF k.model = model THEN r[k.col] = last.args.filter_expressions[k]
                ELSE \E p \in parents :
                        /\ p["id"] = r["parent_id"]
                        /\ p[k.col] = last.args.filter_expressions[k]}

\* rows in the order of the call: order_by, then default_ordering
InCallOrder(rows) ==
    \A i \in 1..Len(rows) : \A j \in 1..Len(rows) :
        i < j =>
            LET o == last.args.order_by
                d == default_ordering(model)
            IN  IF o # NoOrder
                THEN /\ NoLater(rows[i], rows[j], o)
                     /\ (d # NoOrder /\ rows[i][o.col] = rows[j][o.col])
                            => NoLater(rows[i], rows[j], d)
                ELSE d # NoOrder => NoLater(rows[i], rows[j], d)

\* C30: filter and list return the slice [offset, offset + limit) of the
\* ordered sequence of all rows that satisfy the whole call, the entries of
\* filter_expressions included.
C30_SliceOfFilteredRows ==
    Returned({"filter", "list"}) =>
        /\ last.err = NoErr
        /\ \E full \in Arrangements(FullyFiltered) :
              LET from == IF last.args.offset = NoLimit THEN 0 ELSE last.args.offset
                  upto == IF last.args.limit = NoLimit THEN Len(full)
                          ELSE IF from + last.args.limit < Len(full)
                               THEN from + last.args.limit ELSE Len(full)
              IN  /\ InCallOrder(full)
                  /\ last.ret.val = SubSeq(full, from + 1, upto)

C30_Witness ==
    /\ Returned({"list"})
    /\ last.args.limit = 1
    /\ last.args.offset = NoLimit
    /\ last.args.order_by = [col |-> "title", desc |-> TRUE]
    /\ Attr(model, "title") \in DOMAIN last.args.filter_expressions
    /\ last.args.filter_expressions[Attr(model, "title")] = "a"
    /\ \E r \in sess : r["title"] = "b"
    /\ Len(last.ret.val) = 1
    /\ last.ret.val[1]["title"] = "a"

====
